---- MODULE Spec2Model ----
(***************************************************************************)
(* NSF Grants Explorer: the data pipeline of get_data                      *)
(* (Fontanals_Villoria_streamlit.py) over analysis_functions.py.           *)
(*                                                                         *)
(* Dates are day numbers of a compressed calendar: every year has          *)
(* DaysPerYear days, day 0 of a year is Jan-01 and its last day is Dec-31. *)
(* Percentages are kept in hundredths of a percent (round(x, 2)).          *)
(***************************************************************************)
EXTENDS Integers, Sequences, FiniteSets, TLC

VARIABLES csv,                    \* rows of nsf_data_clean.csv
          df,                     \* the table returned by load_data
          pc,                     \* the last call of get_data that returned
          error,                  \* the exception that left get_data, if any
          grants_by_state, directorate_data, termination_impact_df,
          event_index,            \* daily_changes after groupby/unstack
          lifecycle_df,
          data,                   \* what get_data returned (and st.cache_data keeps)
          v2_pc,                  \* streamlit_v2.py: the last call that returned
          v2_df, v2_grants_df, v2_lifecycle_df,
          st_pc,                  \* streamlit.py: the last call that returned
          st_df, st_grants_by_state,
          political_csv,          \* rows of state_political_alignment.csv
          political_df,           \* the table returned by load_political_data
          political_source_df,    \* the table returned by prepare_political_data
          political_pc,           \* political path: the last call that returned
          political_error,        \* the exception prepare_political_data raised
          grants_file,            \* rows of all_grants_combined.csv
          terminated_file,        \* rows of NSF-Terminated-Awards.csv
          joined_file,            \* rows of all_grants_with_termination.csv
          join_pc,                \* join_terminated_grants: "files" or "saved"
          yearly_files,           \* year -> rows of grants_<year>.csv, <<>> = no file
          combined_file,          \* all_grants_combined.csv: columns and rows
          combine_warnings,       \* years reported "not found, skipping..."
          combine_pc,             \* combine_yearly_grants: "files", "saved", "raised"
          year_dir,               \* the year directory: exists, files
          output_csv,             \* grants_<year>.csv: written, rows
          grants_processed,       \* what process_year_directory returned
          create_pc               \* process_year_directory: "dir" or "returned"

v2_vars == <<v2_pc, v2_df, v2_grants_df, v2_lifecycle_df>>

st_vars == <<st_pc, st_df, st_grants_by_state>>

political_vars == <<political_csv, political_df, political_source_df, political_pc,
                    political_error>>

join_vars == <<grants_file, terminated_file, joined_file, join_pc>>

combine_vars == <<yearly_files, combined_file, combine_warnings, combine_pc>>

create_vars == <<year_dir, output_csv, grants_processed, create_pc>>

script_vars == <<political_vars, join_vars, combine_vars, create_vars>>

vars == <<script_vars, st_vars, csv, df, pc, error, grants_by_state, directorate_data,
          termination_impact_df, event_index, lifecycle_df, data, v2_vars>>

(* ------------------------------ bounds --------------------------------- *)
MaxGrants == 2
MaxBulkGrants == 4
MaxVariantGrants == 2
MaxPoliticalGrants == 2
MaxPoliticalRows == 2
MaxJoinRows == 2
MaxYearlyRows == 2
MaxDirFiles == 3
DaysPerYear == 3

(* ----------------------------- calendar -------------------------------- *)
FirstYear == 2020
LastYear == 2025
Years == FirstYear..LastYear

Jan01(y) == (y - FirstYear + 1) * DaysPerYear
Dec31(y) == Jan01(y + 1) - 1
MidYear(y) == Jan01(y) + 1

NaT == -1
Unparseable == -2
NaN == "NaN"

to_datetime(cell) == IF cell >= 0 THEN cell ELSE NaT

(* pandas comparisons: anything compared with NaT / NaN is False *)
DateLe(a, b) == a # NaT /\ b # NaT /\ a <= b
DateGe(a, b) == a # NaT /\ b # NaT /\ a >= b
DateGt(a, b) == a # NaT /\ b # NaT /\ a > b
KeyEq(a, b) == a # NaN /\ b # NaN /\ a = b

STATE_FIPS ==
    ("AL" :> 1) @@ ("AK" :> 2) @@ ("AZ" :> 4) @@ ("AR" :> 5) @@ ("CA" :> 6) @@
    ("CO" :> 8) @@ ("CT" :> 9) @@ ("DE" :> 10) @@ ("FL" :> 12) @@ ("GA" :> 13) @@
    ("HI" :> 15) @@ ("ID" :> 16) @@ ("IL" :> 17) @@ ("IN" :> 18) @@ ("IA" :> 19) @@
    ("KS" :> 20) @@ ("KY" :> 21) @@ ("LA" :> 22) @@ ("ME" :> 23) @@ ("MD" :> 24) @@
    ("MA" :> 25) @@ ("MI" :> 26) @@ ("MN" :> 27) @@ ("MS" :> 28) @@ ("MO" :> 29) @@
    ("MT" :> 30) @@ ("NE" :> 31) @@ ("NV" :> 32) @@ ("NH" :> 33) @@ ("NJ" :> 34) @@
    ("NM" :> 35) @@ ("NY" :> 36) @@ ("NC" :> 37) @@ ("ND" :> 38) @@ ("OH" :> 39) @@
    ("OK" :> 40) @@ ("OR" :> 41) @@ ("PA" :> 42) @@ ("RI" :> 44) @@ ("SC" :> 45) @@
    ("SD" :> 46) @@ ("TN" :> 47) @@ ("TX" :> 48) @@ ("UT" :> 49) @@ ("VT" :> 50) @@
    ("VA" :> 51) @@ ("WA" :> 53) @@ ("WV" :> 54) @@ ("WI" :> 55) @@ ("WY" :> 56) @@
    ("DC" :> 11) @@ ("PR" :> 72)

(* ------------------------- rows of nsf_data_clean.csv ------------------ *)
Row(eff, exp, code, name, dir, term) ==
    [awd_eff_date |-> eff, awd_exp_date |-> exp, inst_state_code |-> code,
     inst_state_name |-> name, dir_abbr |-> dir, terminated |-> term]

(* grants of a state with a FIPS code, well-formed windows *)
EarlyWindows == { <<MidYear(2019), Jan01(2020)>>, <<Jan01(2020), Jan01(2020)>> }
LongWindows == { <<MidYear(2021), MidYear(2023)>>, <<Jan01(2022), Jan01(2030)>> }
RegularStates == { <<"CA", "California">>, <<"TX", "Texas">> }
RegularRows ==
    { Row(w[1], w[2], "CA", "California", "MPS", FALSE) : w \in EarlyWindows }
    \cup
    { Row(w[1], w[2], "CA", "California", "MPS", t) : w \in LongWindows, t \in BOOLEAN }
    \cup
    { Row(w[1], w[2], "TX", "Texas", "CSE", t) : w \in LongWindows, t \in BOOLEAN }
    \cup
    { Row(MidYear(2021), MidYear(2023), "TX", "Texas", "MPS", FALSE) }

(* degenerate, late, or unreadable windows *)
OddWindows ==
    { <<Dec31(2022), Jan01(2022)>>, <<Jan01(2026), Jan01(2030)>>,
      <<Unparseable, MidYear(2023)>>, <<MidYear(2021), Unparseable>> }
OddWindowRows ==
    { Row(w[1], w[2], "CA", "California", "MPS", TRUE) : w \in OddWindows }

(* a territory without FIPS entry, a missing state code, a missing state name *)
OddStates == { <<"GU", "Guam">>, <<NaN, "California">>, <<"CA", NaN>> }
OddStateRows ==
    { Row(Jan01(2022), Jan01(2030), s[1], s[2], "O/D", FALSE) : s \in OddStates }
    \cup
    { Row(Jan01(2022), Jan01(2030), "GU", "Guam", "O/D", TRUE) }

CsvRows == RegularRows \cup OddWindowRows \cup OddStateRows

(* a data file of many grants of few kinds: larger groups per state *)
BulkRows ==
    { Row(Jan01(2022), Jan01(2030), "CA", "California", "MPS", t) : t \in BOOLEAN }
    \cup
    { Row(MidYear(2021), MidYear(2023), "CA", "California", "MPS", TRUE),
      Row(MidYear(2021), MidYear(2023), "TX", "Texas", "CSE", TRUE),
      Row(Unparseable, MidYear(2023), "CA", "California", "MPS", TRUE) }

(* alphabetical order of the state names (column order after unstack) *)
NameOrder == <<"California", "Guam", "Texas">>

(* ------------------------------ helpers -------------------------------- *)
RECURSIVE SeqSum(_)
SeqSum(s) == IF s = <<>> THEN 0 ELSE Head(s) + SeqSum(Tail(s))

RECURSIVE Flatten(_)
Flatten(ss) == IF ss = <<>> THEN <<>> ELSE Head(ss) \o Flatten(Tail(ss))

Range(s) == { s[i] : i \in DOMAIN s }

(* Series.unique(): distinct values in order of first appearance *)
RECURSIVE unique(_)
unique(s) ==
    IF s = <<>> THEN <<>>
    ELSE LET rest == unique(SubSeq(s, 1, Len(s) - 1))
             x == s[Len(s)]
         IN IF x \in Range(rest) THEN rest ELSE Append(rest, x)

Column(table, col) == [i \in DOMAIN table |-> table[i][col]]

(* ------------------------------ load_data ------------------------------ *)
load_data(file) ==
    [i \in DOMAIN file |->
        [file[i] EXCEPT !.awd_eff_date = to_datetime(@),
                        !.awd_exp_date = to_datetime(@)]]

(* -------------------- prepare_grants_by_state_data --------------------- *)
(* active at the end of the year instead of overlapping the year *)
ActiveInYear_AtYearEnd(r, year) ==
    DateLe(r.awd_eff_date, Dec31(year)) /\ DateGe(r.awd_exp_date, Dec31(year))

(* overlap test against the start of the year only *)
ActiveInYear_StartedBefore(r, year) ==
    DateLe(r.awd_eff_date, Jan01(year)) /\ DateGe(r.awd_exp_date, Jan01(year))

(* only the grants that start within the year *)
ActiveInYear_StartedInYear(r, year) ==
    DateLe(r.awd_eff_date, Dec31(year)) /\ DateGe(r.awd_eff_date, Jan01(year))

ActiveInYear(r, year) ==
    DateLe(r.awd_eff_date, Dec31(year)) /\ DateGe(r.awd_exp_date, Jan01(year))

CountActive(rows, year) == Len(SelectSeq(rows, LAMBDA r : ActiveInYear(r, year)))

CountTerminated(rows) == Len(SelectSeq(rows, LAMBDA r : r.terminated))

(* round(terminated_count / num_active * 100, 2) in hundredths, half to even *)
RoundHalfEven(n, d) ==
    LET q == n \div d
        r == n % d
    IN IF 2 * r < d THEN q
       ELSE IF 2 * r > d THEN q + 1
       ELSE IF q % 2 = 0 THEN q ELSE q + 1

(* the percentage cut to two decimals instead of rounded *)
Pct_Truncated(terminated_count, num_active) ==
    IF num_active > 0 THEN (10000 * terminated_count) \div num_active ELSE 0

Pct(terminated_count, num_active) ==
    IF num_active > 0 THEN RoundHalfEven(10000 * terminated_count, num_active) ELSE 0

(* terminations counted over the grants active in the year only *)
StateYearRow_ActiveTerminated(t, state, year) ==
    LET state_df == SelectSeq(t, LAMBDA r : KeyEq(r.inst_state_code, state))
        state_name == IF Len(state_df) > 0 THEN state_df[1].inst_state_name ELSE state
        active == SelectSeq(state_df, LAMBDA r : ActiveInYear(r, year))
        num_active == Len(active)
        terminated_count == IF year = LastYear THEN CountTerminated(active) ELSE 0
    IN [state |-> state, state_name |-> state_name, year |-> year,
        num_grants |-> num_active, terminated_grants |-> terminated_count,
        terminated_pct |-> Pct(terminated_count, num_active)]

StateYearRow(t, state, year) ==
    LET state_df == SelectSeq(t, LAMBDA r : KeyEq(r.inst_state_code, state))
        state_name == IF Len(state_df) > 0 THEN state_df[1].inst_state_name ELSE state
        num_active == CountActive(state_df, year)
        terminated_count == IF year = LastYear THEN CountTerminated(state_df) ELSE 0
    IN [state |-> state, state_name |-> state_name, year |-> year,
        num_grants |-> num_active, terminated_grants |-> terminated_count,
        terminated_pct |-> Pct(terminated_count, num_active)]

(* range(2020, 2025): the last year left out *)
StateYearResults_ShortRange(t) ==
    LET states == unique(Column(t, "inst_state_code"))
    IN Flatten([i \in DOMAIN states |->
                  [k \in 1..(LastYear - FirstYear) |->
                      StateYearRow(t, states[i], FirstYear + k - 1)]])

StateYearResults(t) ==
    LET states == unique(Column(t, "inst_state_code"))
    IN Flatten([i \in DOMAIN states |->
                  [k \in 1..(LastYear - FirstYear + 1) |->
                      StateYearRow(t, states[i], FirstYear + k - 1)]])

HasFips(r) == r.state \in DOMAIN STATE_FIPS

(* pd.DataFrame([]) has no 'state' column: grants_df['state'] raises KeyError *)
GrantsByStateRaises(t) == StateYearResults(t) = <<>>

prepare_grants_by_state_data(t) ==
    LET kept == SelectSeq(StateYearResults(t), HasFips)
    IN [i \in DOMAIN kept |->
          [state |-> kept[i].state, state_name |-> kept[i].state_name,
           year |-> kept[i].year, num_grants |-> kept[i].num_grants,
           terminated_grants |-> kept[i].terminated_grants,
           terminated_pct |-> kept[i].terminated_pct,
           id |-> STATE_FIPS[kept[i].state]]]

(* ----------------------- prepare_directorate_data ---------------------- *)
str(year) ==
    CASE year = 2020 -> "2020" [] year = 2021 -> "2021" [] year = 2022 -> "2022"
      [] year = 2023 -> "2023" [] year = 2024 -> "2024" [] year = 2025 -> "2025"

DirectorateYearRow(t, directorate, year) ==
    LET dir_df == SelectSeq(t, LAMBDA r : KeyEq(r.dir_abbr, directorate))
    IN [directorate |-> directorate, year |-> str(year),
        num_grants |-> CountActive(dir_df, year),
        terminated_grants |-> IF year = LastYear THEN CountTerminated(dir_df) ELSE 0]

DirectorateAllYearsRow(t, directorate) ==
    LET dir_df == SelectSeq(t, LAMBDA r : KeyEq(r.dir_abbr, directorate))
    IN [directorate |-> directorate, year |-> "All years",
        num_grants |-> Len(dir_df),
        terminated_grants |-> CountTerminated(dir_df)]

prepare_directorate_data(t) ==
    LET dirs == unique(Column(t, "dir_abbr"))
    IN Flatten([i \in DOMAIN dirs |->
                  [k \in 1..(LastYear - FirstYear + 1) |->
                      DirectorateYearRow(t, dirs[i], FirstYear + k - 1)]])
       \o [i \in DOMAIN dirs |-> DirectorateAllYearsRow(t, dirs[i])]

(* ------------------- prepare_termination_impact_data ------------------- *)
main_directorates == {"MPS", "CSE", "ENG", "GEO", "EDU", "BIO", "TIP", "SBE"}

TerminationImpactRow(t, directorate) ==
    LET dir_df == SelectSeq(t, LAMBDA r : KeyEq(r.dir_abbr, directorate))
        num_active_2025 == CountActive(dir_df, 2025)
        num_terminated == CountTerminated(dir_df)
    IN [directorate |-> directorate, active_grants_2025 |-> num_active_2025,
        terminated_grants |-> num_terminated,
        termination_pct |-> Pct(num_terminated, num_active_2025)]

TerminationImpactRows(t) ==
    LET dirs == SelectSeq(unique(Column(t, "dir_abbr")),
                          LAMBDA d : d \in main_directorates)
    IN [i \in DOMAIN dirs |-> TerminationImpactRow(t, dirs[i])]

(* sort_values('terminated_grants', ascending=False): ties keep their order *)
RECURSIVE InsertDesc(_, _)
InsertDesc(sorted, x) ==
    IF sorted = <<>> THEN <<x>>
    ELSE IF Head(sorted).terminated_grants >= x.terminated_grants
         THEN <<Head(sorted)>> \o InsertDesc(Tail(sorted), x)
         ELSE <<x>> \o sorted

RECURSIVE SortDesc(_)
SortDesc(s) ==
    IF s = <<>> THEN <<>>
    ELSE InsertDesc(SortDesc(SubSeq(s, 1, Len(s) - 1)), s[Len(s)])

(* pd.DataFrame([]).sort_values('terminated_grants') raises KeyError *)
TerminationImpactRaises(t) == TerminationImpactRows(t) = <<>>

prepare_termination_impact_data(t) == SortDesc(TerminationImpactRows(t))

(* --------------- prepare_lifecycle_data_with_statecode ----------------- *)
Usable(r) ==
    /\ r.awd_eff_date # NaT
    /\ r.awd_exp_date # NaT
    /\ r.inst_state_name # NaN
    /\ r.inst_state_code # NaN

(* dropna only: the awd_eff_date <= awd_exp_date filter left out *)
clean_df_Unfiltered(t) == SelectSeq(t, Usable)

clean_df(t) ==
    SelectSeq(SelectSeq(t, Usable),
              LAMBDA r : DateLe(r.awd_eff_date, r.awd_exp_date))

starts(c) ==
    [i \in DOMAIN c |->
        [date |-> c[i].awd_eff_date, inst_state_name |-> c[i].inst_state_name,
         change |-> 1]]

(* the closing event dated on the expiration day itself *)
EndDate_SameDay(r) == r.awd_exp_date

EndDate(r) == r.awd_exp_date + 1

ends(c) ==
    [i \in DOMAIN c |->
        [date |-> EndDate(c[i]), inst_state_name |-> c[i].inst_state_name,
         change |-> -1]]

(* the closing events left out of the concat *)
all_events_StartsOnly(t) == starts(clean_df(t))

all_events(t) == starts(clean_df(t)) \o ends(clean_df(t))

EventDates(ev) == { e.date : e \in Range(ev) }

(* unstack: one column per state name, in sorted order *)
EventNames(ev) ==
    SelectSeq(NameOrder, LAMBDA n : \E e \in Range(ev) : e.inst_state_name = n)

(* .first() in place of .sum(): same-day events not added up *)
daily_changes_First(ev) ==
    [d \in EventDates(ev) |->
        [n \in Range(EventNames(ev)) |->
            LET hits == SelectSeq(ev, LAMBDA e : e.date = d /\ e.inst_state_name = n)
            IN IF hits = <<>> THEN 0 ELSE hits[1].change]]

(* groupby(['date', 'inst_state_name'])['change'].sum().unstack(fill_value=0) *)
daily_changes(ev) ==
    [d \in EventDates(ev) |->
        [n \in Range(EventNames(ev)) |->
            SeqSum(Column(SelectSeq(ev, LAMBDA e : e.date = d /\ e.inst_state_name = n),
                          "change"))]]

SetMin(S) == CHOOSE x \in S : \A y \in S : x <= y
SetMax(S) == CHOOSE x \in S : \A y \in S : x >= y

(* resample('D').ffill(): a day without events repeats the last delta *)
resample_D_ffill(tbl, names) ==
    IF DOMAIN tbl = {} THEN tbl
    ELSE [d \in SetMin(DOMAIN tbl)..SetMax(DOMAIN tbl) |->
            tbl[SetMax({ e \in DOMAIN tbl : e <= d })]]

(* resample('D').sum().fillna(0): every day from the first to the last event *)
resample_D(tbl, names) ==
    IF DOMAIN tbl = {} THEN tbl
    ELSE [d \in SetMin(DOMAIN tbl)..SetMax(DOMAIN tbl) |->
            IF d \in DOMAIN tbl THEN tbl[d] ELSE [n \in names |-> 0]]

cumsum(tbl) ==
    IF DOMAIN tbl = {} THEN tbl
    ELSE LET lo == SetMin(DOMAIN tbl)
             acc[d \in DOMAIN tbl] ==
                 IF d = lo THEN tbl[d]
                 ELSE [n \in DOMAIN tbl[d] |-> acc[d - 1][n] + tbl[d][n]]
         IN [d \in DOMAIN tbl |-> acc[d]]

(* .max(axis=1) in place of .sum(axis=1) *)
active_counts_by_state_Max(t) ==
    LET ev == all_events(t)
        names == EventNames(ev)
        counts == cumsum(resample_D(daily_changes(ev), Range(names)))
    IN [d \in DOMAIN counts |->
          [n \in Range(names) \cup {"Allstates"} |->
              IF n = "Allstates"
              THEN SetMax({ counts[d][m] : m \in Range(names) })
              ELSE counts[d][n]]]

active_counts_by_state(t) ==
    LET ev == all_events(t)
        names == EventNames(ev)
        counts == cumsum(resample_D(daily_changes(ev), Range(names)))
    IN [d \in DOMAIN counts |->
          [n \in Range(names) \cup {"Allstates"} |->
              IF n = "Allstates"
              THEN SeqSum([i \in DOMAIN names |-> counts[d][names[i]]])
              ELSE counts[d][n]]]

start_date == Jan01(2020)
end_date == Jan01(2026)

(* melt of the whole table: the slice .loc[start_date:end_date] left out *)
active_counts_long_Unsliced(t) ==
    LET counts == active_counts_by_state(t)
        kept == DOMAIN counts
        cols == EventNames(all_events(t)) \o <<"Allstates">>
    IN IF kept = {} THEN <<>>
       ELSE LET first == SetMin(kept)
            IN Flatten([i \in DOMAIN cols |->
                          [k \in 1..Cardinality(kept) |->
                              [date |-> first + k - 1, inst_state_name |-> cols[i],
                               active_grants |-> counts[first + k - 1][cols[i]]]]])

(* the slice taken with its end excluded *)
active_counts_long_OpenEnd(t) ==
    LET counts == active_counts_by_state(t)
        kept == { d \in DOMAIN counts : start_date <= d /\ d < end_date }
        cols == EventNames(all_events(t)) \o <<"Allstates">>
    IN IF kept = {} THEN <<>>
       ELSE LET first == SetMin(kept)
            IN Flatten([i \in DOMAIN cols |->
                          [k \in 1..Cardinality(kept) |->
                              [date |-> first + k - 1, inst_state_name |-> cols[i],
                               active_grants |-> counts[first + k - 1][cols[i]]]]])

(* .loc[start_date:end_date] then reset_index().melt(id_vars=['date']) *)
active_counts_long(t) ==
    LET counts == active_counts_by_state(t)
        kept == { d \in DOMAIN counts : start_date <= d /\ d <= end_date }
        cols == EventNames(all_events(t)) \o <<"Allstates">>
    IN IF kept = {} THEN <<>>
       ELSE LET first == SetMin(kept)
            IN Flatten([i \in DOMAIN cols |->
                          [k \in 1..Cardinality(kept) |->
                              [date |-> first + k - 1, inst_state_name |-> cols[i],
                               active_grants |-> counts[first + k - 1][cols[i]]]]])

(* clean_df[['inst_state_name', 'inst_state_code']].drop_duplicates() *)
id_map(t) ==
    LET c == clean_df(t)
    IN unique([i \in DOMAIN c |->
                 [inst_state_name |-> c[i].inst_state_name,
                  inst_state_code |-> c[i].inst_state_code]])

(* merge(id_map, on='inst_state_name', how='left'), then the Allstates code *)
MergeRow(row, map) ==
    LET hits == SelectSeq(map, LAMBDA m : m.inst_state_name = row.inst_state_name)
        code(c) == IF row.inst_state_name = "Allstates" THEN "Allstates" ELSE c
        out(c) == [Date |-> row.date, State |-> row.inst_state_name,
                   state_code |-> code(c), ActiveGrants |-> row.active_grants]
    IN IF hits = <<>> THEN << out(NaN) >>
       ELSE [j \in DOMAIN hits |-> out(hits[j].inst_state_code)]

prepare_lifecycle_data_with_statecode(t) ==
    LET long == active_counts_long(t)
        map == id_map(t)
    IN Flatten([i \in DOMAIN long |-> MergeRow(long[i], map)])

(* ====================== streamlit_v2.py ================================ *)
(* the first grants of the file that the variants are run on *)
VariantRows ==
    { Row(MidYear(2019), Jan01(2020), "CA", "California", "MPS", FALSE),
      Row(MidYear(2021), MidYear(2023), "CA", "California", "MPS", FALSE),
      Row(MidYear(2021), MidYear(2023), "CA", "California", "MPS", TRUE),
      Row(Jan01(2022), Jan01(2030), "CA", "California", "MPS", TRUE),
      Row(Jan01(2026), Jan01(2030), "CA", "California", "MPS", TRUE),
      Row(Jan01(2026), Jan01(2030), "TX", "Texas", "MPS", TRUE),
      Row(Dec31(2025), Jan01(2030), "TX", "Texas", "MPS", TRUE),
      Row(MidYear(2022), Jan01(2022), "TX", "Texas", "MPS", FALSE),
      Row(Jan01(2022), Jan01(2030), "PR", "California", "MPS", FALSE),
      Row(Unparseable, MidYear(2023), "CA", "California", "MPS", TRUE),
      Row(Jan01(2022), Jan01(2030), "CA", NaN, "MPS", FALSE) }

(* alphabetical order of the state codes (key order of groupby) *)
CodeOrder == <<"CA", "GU", "PR", "TX">>

window_clip_date == Dec31(2025)

(* load_data of streamlit_v2.py: terminated grants capped at the end of 2025,
   then dropna(subset=['awd_eff_date', 'awd_exp_date', 'inst_state_name']) *)
v2_load_data(file) ==
    LET parsed == [i \in DOMAIN file |->
                      [file[i] EXCEPT !.awd_eff_date = to_datetime(@),
                                      !.awd_exp_date = to_datetime(@)]]
        capped == [i \in DOMAIN parsed |->
                      IF parsed[i].terminated
                         /\ DateGt(parsed[i].awd_exp_date, window_clip_date)
                      THEN [parsed[i] EXCEPT !.awd_exp_date = window_clip_date]
                      ELSE parsed[i]]
    IN SelectSeq(capped, LAMBDA r : /\ r.awd_eff_date # NaT
                                    /\ r.awd_exp_date # NaT
                                    /\ r.inst_state_name # NaN)

(* a mask that forgets the effective date *)
active_mask_ExpOnly(r, year) == DateGe(r.awd_exp_date, Jan01(year))

active_mask(r, year) ==
    DateLe(r.awd_eff_date, Dec31(year)) /\ DateGe(r.awd_exp_date, Jan01(year))

v2_StateYearRow(t, state, year) ==
    LET state_df == SelectSeq(t, LAMBDA r : KeyEq(r.inst_state_code, state))
        state_name == IF Len(state_df) > 0 THEN state_df[1].inst_state_name ELSE state
        active == SelectSeq(state_df, LAMBDA r : active_mask(r, year))
        num_active == Len(active)
        terminated_count == IF year = LastYear THEN CountTerminated(active) ELSE 0
    IN [state |-> state, state_name |-> state_name, year |-> year,
        num_grants |-> num_active, terminated_grants |-> terminated_count,
        terminated_pct |-> Pct(terminated_count, num_active)]

v2_results(t) ==
    LET states == unique(Column(t, "inst_state_code"))
    IN Flatten([i \in DOMAIN states |->
                  [k \in 1..(LastYear - FirstYear + 1) |->
                      v2_StateYearRow(t, states[i], FirstYear + k - 1)]])

(* pd.DataFrame([]) has no 'state' column: grants_df['state'] raises KeyError *)
GrantsByStateYearRaises(t) == v2_results(t) = <<>>

(* the long table grants_df; grants_wide is its pivot *)
prepare_grants_by_state_year(t) ==
    LET kept == SelectSeq(v2_results(t), HasFips)
    IN [i \in DOMAIN kept |->
          [state |-> kept[i].state, state_name |-> kept[i].state_name,
           year |-> kept[i].year, num_grants |-> kept[i].num_grants,
           terminated_grants |-> kept[i].terminated_grants,
           terminated_pct |-> kept[i].terminated_pct,
           id |-> STATE_FIPS[kept[i].state]]]

(* freq='MS': the sampled days; the last day of a year is never one *)
IsMonthStart(d) == d % DaysPerYear # DaysPerYear - 1

(* pd.date_range(start='2020-01-01', end='2025-12-31', freq='MS') *)
date_range ==
    SelectSeq([k \in 1..(Dec31(LastYear) - Jan01(FirstYear) + 1) |->
                  Jan01(FirstYear) + k - 1],
              IsMonthStart)

(* df.groupby('inst_state_code')['inst_state_name'].first().to_dict() *)
state_info(t) ==
    LET codes == SelectSeq(CodeOrder,
                           LAMBDA c : \E r \in Range(t) : r.inst_state_code = c)
        named(c) == SelectSeq(t, LAMBDA r : r.inst_state_code = c /\ r.inst_state_name # NaN)
    IN [i \in DOMAIN codes |->
          [state_code |-> codes[i],
           state_name |-> IF named(codes[i]) = <<>> THEN NaN
                          ELSE named(codes[i])[1].inst_state_name]]

(* the count taken on the eve of the sampled day *)
active_count_Eve(state_df, date) ==
    Len(SelectSeq(state_df, LAMBDA r : /\ DateLe(r.awd_eff_date, date - 1)
                                       /\ DateGe(r.awd_exp_date, date - 1)))

active_count(state_df, date) ==
    Len(SelectSeq(state_df, LAMBDA r : /\ DateLe(r.awd_eff_date, date)
                                       /\ DateGe(r.awd_exp_date, date)))

prepare_lifecycle_data(t) ==
    LET info == state_info(t)
    IN Flatten([i \in DOMAIN info |->
                  LET state_df == SelectSeq(t, LAMBDA r :
                                      KeyEq(r.inst_state_code, info[i].state_code))
                  IN [k \in DOMAIN date_range |->
                        [Date |-> date_range[k], State |-> info[i].state_name,
                         state_code |-> info[i].state_code,
                         ActiveGrants |-> active_count(state_df, date_range[k])]]])

(* ========================= streamlit.py ================================ *)
(* load_data of streamlit.py: dates parsed, terminated.fillna(False) *)
st_load_data(file) ==
    [i \in DOMAIN file |->
        [file[i] EXCEPT !.awd_eff_date = to_datetime(@),
                        !.awd_exp_date = to_datetime(@)]]

st_StateYearRow(t, state, year) ==
    LET state_df == SelectSeq(t, LAMBDA r : KeyEq(r.inst_state_code, state))
        state_name == IF Len(state_df) > 0 THEN state_df[1].inst_state_name ELSE state
        num_active == Len(SelectSeq(state_df, LAMBDA r :
                          /\ DateLe(r.awd_eff_date, Dec31(year))
                          /\ DateGe(r.awd_exp_date, Jan01(year))))
        terminated_count == IF year = LastYear THEN CountTerminated(state_df) ELSE 0
    IN [state |-> state, state_name |-> state_name, year |-> year,
        num_grants |-> num_active, terminated_grants |-> terminated_count,
        termination_pct |-> Pct(terminated_count, num_active)]

(* for state in df['inst_state_code'].dropna().unique(): ... DataFrame(results) *)
compute_grants_by_state_year(t) ==
    LET states == SelectSeq(unique(Column(t, "inst_state_code")), LAMBDA c : c # NaN)
    IN Flatten([i \in DOMAIN states |->
                  [k \in 1..(LastYear - FirstYear + 1) |->
                      st_StateYearRow(t, states[i], FirstYear + k - 1)]])

(* ===================== prepare_political_data ========================= *)
PoliticalRow(abbr, w2020, w2024) ==
    [Abbreviation |-> abbr, 2020_Election_Winner |-> w2020,
     2024_Election_Winner |-> w2024]

(* lines of state_political_alignment.csv; "" is an empty cell *)
PoliticalCsvRows ==
    { PoliticalRow("CA", "Democrat", "Democrat"),
      PoliticalRow("TX", "Democrat", "Republican"),
      PoliticalRow("TX", "", "Republican"),
      PoliticalRow("CA", "Republican", ""),
      PoliticalRow("", "Republican", "Republican") }

(* grants of the political path: states with and without a political entry *)
PoliticalGrantRows ==
    { Row(Jan01(2022), Jan01(2030), "CA", "California", "MPS", FALSE),
      Row(MidYear(2021), MidYear(2023), "CA", "California", "MPS", TRUE),
      Row(Jan01(2022), Jan01(2030), "TX", "Texas", "CSE", TRUE),
      Row(Jan01(2022), Jan01(2030), "GU", "Guam", "O/D", FALSE),
      Row(Jan01(2022), Jan01(2030), NaN, "California", "O/D", FALSE) }

(* pd.read_csv: an empty cell is read as NaN *)
read_cell(c) == IF c = "" THEN NaN ELSE c

load_political_data(file) ==
    [i \in DOMAIN file |->
        PoliticalRow(read_cell(file[i].Abbreviation),
                     read_cell(file[i].2020_Election_Winner),
                     read_cell(file[i].2024_Election_Winner))]

(* the 2020 winner for every year *)
get_political_alignment_Always2020(row) == row.2020_Election_Winner

get_political_alignment(row) ==
    IF row.year < 2024 THEN row.2020_Election_Winner ELSE row.2024_Election_Winner

PoliticalStateYearRow(t, state_abbr, year) ==
    LET state_df == SelectSeq(t, LAMBDA r : KeyEq(r.inst_state_code, state_abbr))
        num_active == CountActive(state_df, year)
        num_terminated == IF year = LastYear THEN CountTerminated(state_df) ELSE 0
    IN [Abbreviation |-> state_abbr, year |-> year, active_grants |-> num_active,
        terminated_grants |-> num_terminated,
        termination_pct |-> Pct(num_terminated, num_active)]

state_year_stats(t) ==
    LET states == unique(Column(t, "inst_state_code"))
    IN Flatten([i \in DOMAIN states |->
                  [k \in 1..(LastYear - FirstYear + 1) |->
                      PoliticalStateYearRow(t, states[i], FirstYear + k - 1)]])

WithWinners(row, w2020, w2024) ==
    [Abbreviation |-> row.Abbreviation, year |-> row.year,
     active_grants |-> row.active_grants,
     terminated_grants |-> row.terminated_grants,
     termination_pct |-> row.termination_pct,
     2020_Election_Winner |-> w2020, 2024_Election_Winner |-> w2024]

(* state_year_df.merge(political_df, on='Abbreviation', how='left'): a left
   row once per matching right row, NaN keys matching NaN keys, and once
   with NaN winners when nothing matches *)
merge_left(left, right) ==
    Flatten([i \in DOMAIN left |->
        LET hits == SelectSeq(right, LAMBDA p : p.Abbreviation = left[i].Abbreviation)
        IN IF hits = <<>>
           THEN << WithWinners(left[i], NaN, NaN) >>
           ELSE [k \in DOMAIN hits |->
                   WithWinners(left[i], hits[k].2020_Election_Winner,
                               hits[k].2024_Election_Winner)]])

(* merge and dropna(subset=['2020_Election_Winner']) *)
political_merged(t, p) ==
    SelectSeq(merge_left(state_year_stats(t), p),
              LAMBDA r : r.2020_Election_Winner # NaN)

(* pd.DataFrame([]) has no 'Abbreviation' column: merge raises KeyError;
   apply(axis=1) of a frame without rows returns a frame, and assigning a
   frame of several columns to one column raises ValueError *)
PoliticalRaises(t, p) ==
    IF state_year_stats(t) = <<>> THEN "KeyError"
    ELSE IF political_merged(t, p) = <<>> THEN "ValueError"
    ELSE "none"

prepare_political_data(t, p) ==
    LET source_df == political_merged(t, p)
    IN [i \in DOMAIN source_df |->
          [Abbreviation |-> source_df[i].Abbreviation, year |-> source_df[i].year,
           active_grants |-> source_df[i].active_grants,
           terminated_grants |-> source_df[i].terminated_grants,
           termination_pct |-> source_df[i].termination_pct,
           political_alignment |-> get_political_alignment(source_df[i]),
           State |-> source_df[i].Abbreviation]]

(* ===================== join_terminated_grants.py ======================= *)
(* cells of the awd_id column and of the 'Award ID' column as written in the
   files: digits, digits with surrounding blanks, digits with leading zeros,
   an empty cell, a cell that is no number *)
AwdIdCells == { "2012345", " 2012345", "0012345", "" }
AwardIdCells == { "2012345", "2012345 ", "0012345", "N/A", "" }

(* str.strip() *)
strip(c) ==
    CASE c = " 2012345" -> "2012345"
      [] c = "2012345 " -> "2012345"
      [] OTHER -> c

IsIntegerCell(c) == c \in { "2012345", " 2012345", "2012345 ", "0012345" }

(* str(int(cell)) *)
IntStr(c) == IF strip(c) = "0012345" THEN "12345" ELSE strip(c)

(* str(float(cell)) *)
FloatStr(c) == IF strip(c) = "0012345" THEN "12345.0" ELSE "2012345.0"

(* pd.read_csv infers one dtype per column: int64 when every cell is an
   integer, float64 when the others are empty (NaN), object otherwise *)
dtype(cells) ==
    IF cells # <<>> /\ \A i \in DOMAIN cells : IsIntegerCell(cells[i]) THEN "int64"
    ELSE IF cells # <<>> /\ \A i \in DOMAIN cells : IsIntegerCell(cells[i]) \/ cells[i] = ""
         THEN "float64"
    ELSE "object"

(* read_csv(...)[column].astype(str): the text of the parsed value *)
astype_str(cells) ==
    [i \in DOMAIN cells |->
        IF cells[i] = "" THEN "nan"
        ELSE CASE dtype(cells) = "int64" -> IntStr(cells[i])
               [] dtype(cells) = "float64" -> FloatStr(cells[i])
               [] OTHER -> cells[i]]

terminated_ids(file) ==
    LET ids == astype_str(Column(file, "Award ID"))
    IN { strip(ids[i]) : i \in DOMAIN ids }

join_terminated_grants(grants, awards) ==
    LET awd_id == astype_str(Column(grants, "awd_id"))
    IN [i \in DOMAIN grants |->
          [awd_id |-> awd_id[i], year |-> grants[i].year,
           terminated |-> strip(awd_id[i]) \in terminated_ids(awards)]]

(* ========================== combine_grants.py ========================== *)
(* award numbers as create_year_csvs.py writes them *)
YearlyAwdIds == { "2012345", "2154321" }

NoTable == [columns |-> <<>>, rows |-> <<>>]

(* grants_<year>.csv exists; create_year_csvs.py writes no file without rows *)
exists(files, year) == files[year] # <<>>

(* pd.read_csv(csv_file) and df['year'] = int(year) *)
read_yearly(files, year) ==
    [columns |-> <<"awd_id", "year">>,
     rows |-> [i \in DOMAIN files[year] |->
                 [awd_id |-> IntStr(files[year][i].awd_id), year |-> year]]]

(* the loop over years: the frames of the files that exist, in year order *)
RECURSIVE all_dataframes(_, _)
all_dataframes(files, year) ==
    IF year > LastYear THEN <<>>
    ELSE IF exists(files, year)
         THEN <<read_yearly(files, year)>> \o all_dataframes(files, year + 1)
         ELSE all_dataframes(files, year + 1)

(* the years of the Warning lines *)
skipped(files) == { y \in Years : ~exists(files, y) }

(* pd.concat([]) raises ValueError: No objects to concatenate *)
CombineRaises(files) == all_dataframes(files, FirstYear) = <<>>

(* pd.concat(all_dataframes, ignore_index=True) *)
concat(frames) ==
    [columns |-> frames[1].columns,
     rows |-> Flatten([i \in DOMAIN frames |-> frames[i].rows])]

(* cols.remove('year'); cols = ['year'] + cols *)
year_first(cols) == <<"year">> \o SelectSeq(cols, LAMBDA c : c # "year")

combine_yearly_grants(files) ==
    LET combined_df == concat(all_dataframes(files, FirstYear))
    IN [columns |-> year_first(combined_df.columns), rows |-> combined_df.rows]

(* ========================= create_year_csvs.py ========================= *)
(* the value None, a record so that it compares with a grant dict *)
None == [None |-> TRUE]

(* a file of the year directory: its suffix, whether its text is JSON, the
   top-level value, the award number and the value under 'inst' *)
DirFile(suffix, wellformed, top, awd_id, inst) ==
    [suffix |-> suffix, wellformed |-> wellformed, top |-> top, awd_id |-> awd_id,
     inst |-> inst]

DirFiles ==
    { DirFile(".json", TRUE, "object", "2012345", "object"),
      DirFile(".json", TRUE, "object", "absent", "absent"),
      DirFile(".json", TRUE, "object", "2154321", "null"),
      DirFile(".json", TRUE, "array", "absent", "absent"),
      DirFile(".json", FALSE, "none", "absent", "absent"),
      DirFile(".txt", TRUE, "object", "2012345", "object") }

(* data.get(key, '') *)
get(value) == IF value = "absent" THEN "" ELSE value

(* json.load raises on text that is no JSON, data.get on a top-level value
   that is no object, inst.get on 'inst': null; every exception is caught
   and None returned *)
extract_grant_data(f) ==
    IF ~f.wellformed THEN None
    ELSE IF f.top # "object" THEN None
    ELSE IF f.inst = "null" THEN None
    ELSE [awd_id |-> get(f.awd_id),
          inst_state_code |-> IF f.inst = "absent" THEN "" ELSE "CA"]

(* year_path.glob('*.json') *)
json_files(dir) == SelectSeq(dir.files, LAMBDA f : f.suffix = ".json")

(* a dict with keys is true, None is false *)
all_grants(dir) ==
    LET grant_data == [i \in DOMAIN json_files(dir) |->
                          extract_grant_data(json_files(dir)[i])]
    IN SelectSeq(grant_data, LAMBDA g : g # None)

NoCsv == [written |-> FALSE, rows |-> <<>>]

(* the CSV process_year_directory leaves behind *)
written_csv(dir) ==
    IF ~dir.exists THEN NoCsv
    ELSE IF json_files(dir) = <<>> THEN NoCsv
    ELSE IF all_grants(dir) # <<>> THEN [written |-> TRUE, rows |-> all_grants(dir)]
    ELSE NoCsv

(* the number of JSON files instead of the number of extracted grants *)
process_year_directory_CountFiles(dir) ==
    IF ~dir.exists THEN 0
    ELSE Len(json_files(dir))

process_year_directory(dir) ==
    IF ~dir.exists THEN 0
    ELSE IF json_files(dir) = <<>> THEN 0
    ELSE IF all_grants(dir) # <<>> THEN Len(all_grants(dir))
    ELSE 0

(* ------------------------------- actions ------------------------------- *)
Init ==
    /\ csv = <<>>
    /\ political_csv = <<>>
    /\ political_df = <<>>
    /\ political_source_df = <<>>
    /\ political_pc = "csv"
    /\ political_error = "none"
    /\ grants_file = <<>>
    /\ terminated_file = <<>>
    /\ joined_file = <<>>
    /\ join_pc = "files"
    /\ yearly_files = [y \in Years |-> <<>>]
    /\ combined_file = NoTable
    /\ combine_warnings = {}
    /\ combine_pc = "files"
    /\ year_dir = [exists |-> FALSE, files |-> <<>>]
    /\ output_csv = NoCsv
    /\ grants_processed = 0
    /\ create_pc = "dir"
    /\ df = <<>>
    /\ pc = "csv"
    /\ error = "none"
    /\ grants_by_state = <<>>
    /\ directorate_data = <<>>
    /\ termination_impact_df = <<>>
    /\ event_index = <<>>
    /\ lifecycle_df = <<>>
    /\ data = <<>>
    /\ v2_pc = "csv"
    /\ v2_df = <<>>
    /\ v2_grants_df = <<>>
    /\ v2_lifecycle_df = <<>>
    /\ st_pc = "csv"
    /\ st_df = <<>>
    /\ st_grants_by_state = <<>>

(* the data file nsf_data_clean.csv gains a row *)
AddGrant ==
    /\ pc = "csv"
    /\ v2_pc = "csv"
    /\ st_pc = "csv"
    /\ Len(csv) < MaxGrants
    /\ \E r \in CsvRows : csv' = Append(csv, r)
    /\ UNCHANGED <<script_vars, st_vars, data, v2_vars, df, pc, error, grants_by_state, directorate_data,
                   termination_impact_df, event_index, lifecycle_df>>

AddBulkGrant ==
    /\ pc = "csv"
    /\ v2_pc = "csv"
    /\ st_pc = "csv"
    /\ Len(csv) < MaxBulkGrants
    /\ \E r \in BulkRows : csv' = Append(csv, r)
    /\ UNCHANGED <<script_vars, st_vars, data, v2_vars, df, pc, error, grants_by_state, directorate_data,
                   termination_impact_df, event_index, lifecycle_df>>

(* get_data: df = load_data() *)
LoadData ==
    /\ pc = "csv"
    /\ df' = load_data(csv)
    /\ pc' = "load_data"
    /\ UNCHANGED <<script_vars, st_vars, data, v2_vars, csv, error, grants_by_state, directorate_data,
                   termination_impact_df, event_index, lifecycle_df>>

(* get_data: grants_by_state = prepare_grants_by_state_data(df) *)
PrepareGrantsByState ==
    /\ pc = "load_data"
    /\ IF GrantsByStateRaises(df)
       THEN /\ pc' = "raised"
            /\ error' = "KeyError"
            /\ UNCHANGED grants_by_state
       ELSE /\ pc' = "prepare_grants_by_state_data"
            /\ grants_by_state' = prepare_grants_by_state_data(df)
            /\ UNCHANGED error
    /\ UNCHANGED <<script_vars, st_vars, data, v2_vars, csv, df, directorate_data, termination_impact_df,
                   event_index, lifecycle_df>>

(* get_data: directorate_data = prepare_directorate_data(df) *)
PrepareDirectorate ==
    /\ pc = "prepare_grants_by_state_data"
    /\ directorate_data' = prepare_directorate_data(df)
    /\ pc' = "prepare_directorate_data"
    /\ UNCHANGED <<script_vars, st_vars, data, v2_vars, csv, df, error, grants_by_state, termination_impact_df,
                   event_index, lifecycle_df>>

(* get_data: termination_impact_df = prepare_termination_impact_data(df) *)
PrepareTerminationImpact ==
    /\ pc = "prepare_directorate_data"
    /\ IF TerminationImpactRaises(df)
       THEN /\ pc' = "raised"
            /\ error' = "KeyError"
            /\ UNCHANGED termination_impact_df
       ELSE /\ pc' = "prepare_termination_impact_data"
            /\ termination_impact_df' = prepare_termination_impact_data(df)
            /\ UNCHANGED error
    /\ UNCHANGED <<script_vars, st_vars, data, v2_vars, csv, df, grants_by_state, directorate_data,
                   event_index, lifecycle_df>>

(* get_data: lifecycle_df = prepare_lifecycle_data_with_statecode(df) *)
PrepareLifecycle ==
    /\ pc = "prepare_termination_impact_data"
    /\ event_index' = daily_changes(all_events(df))
    /\ lifecycle_df' = prepare_lifecycle_data_with_statecode(df)
    /\ pc' = "prepare_lifecycle_data_with_statecode"
    /\ UNCHANGED <<script_vars, st_vars, data, v2_vars, csv, df, error, grants_by_state, directorate_data,
                   termination_impact_df>>

(* get_data answered from the failure on: whatever was computed is returned *)
ReturnData_OnError ==
    /\ pc \in {"prepare_lifecycle_data_with_statecode", "raised"}
    /\ data' = [df |-> df, grants_by_state |-> grants_by_state,
                directorate_data |-> directorate_data,
                termination_impact_df |-> termination_impact_df,
                lifecycle_df |-> lifecycle_df]
    /\ pc' = "get_data"
    /\ UNCHANGED <<script_vars, st_vars, v2_vars, csv, df, error, grants_by_state, directorate_data,
                   termination_impact_df, event_index, lifecycle_df>>

(* get_data: return {...}; st.cache_data keeps the returned value *)
ReturnData ==
    /\ pc = "prepare_lifecycle_data_with_statecode"
    /\ data' = [df |-> df, grants_by_state |-> grants_by_state,
                directorate_data |-> directorate_data,
                termination_impact_df |-> termination_impact_df,
                lifecycle_df |-> lifecycle_df]
    /\ pc' = "get_data"
    /\ UNCHANGED <<script_vars, st_vars, v2_vars, csv, df, error, grants_by_state, directorate_data,
                   termination_impact_df, event_index, lifecycle_df>>

analysis_vars == <<df, pc, error, grants_by_state, directorate_data,
                   termination_impact_df, event_index, lifecycle_df, data>>

(* the data file gains a row before either program reads it *)
AddVariantGrant ==
    /\ pc = "csv"
    /\ v2_pc = "csv"
    /\ st_pc = "csv"
    /\ Len(csv) < MaxVariantGrants
    /\ \E r \in VariantRows : csv' = Append(csv, r)
    /\ UNCHANGED <<script_vars, st_vars, analysis_vars, v2_vars>>

(* streamlit_v2.py: df = load_data() *)
V2LoadData ==
    /\ v2_pc = "csv"
    /\ v2_df' = v2_load_data(csv)
    /\ v2_pc' = "load_data"
    /\ UNCHANGED <<script_vars, st_vars, csv, analysis_vars, v2_grants_df, v2_lifecycle_df>>

(* streamlit_v2.py: grants_by_state, grants_wide = prepare_grants_by_state_year(df) *)
V2PrepareGrantsByStateYear ==
    /\ v2_pc = "load_data"
    /\ IF GrantsByStateYearRaises(v2_df)
       THEN /\ v2_pc' = "raised"
            /\ UNCHANGED v2_grants_df
       ELSE /\ v2_pc' = "prepare_grants_by_state_year"
            /\ v2_grants_df' = prepare_grants_by_state_year(v2_df)
    /\ UNCHANGED <<script_vars, st_vars, csv, analysis_vars, v2_df, v2_lifecycle_df>>

(* streamlit_v2.py: lifecycle_df = prepare_lifecycle_data(df) *)
V2PrepareLifecycle ==
    /\ v2_pc = "prepare_grants_by_state_year"
    /\ v2_lifecycle_df' = prepare_lifecycle_data(v2_df)
    /\ v2_pc' = "prepare_lifecycle_data"
    /\ UNCHANGED <<script_vars, st_vars, csv, analysis_vars, v2_df, v2_grants_df>>

(* streamlit.py main: df = load_data() *)
StLoadData ==
    /\ st_pc = "csv"
    /\ st_df' = st_load_data(csv)
    /\ st_pc' = "load_data"
    /\ UNCHANGED <<script_vars, csv, analysis_vars, v2_vars, st_grants_by_state>>

(* streamlit.py main: grants_by_state = compute_grants_by_state_year(df) *)
StComputeGrantsByStateYear ==
    /\ st_pc = "load_data"
    /\ st_grants_by_state' = compute_grants_by_state_year(st_df)
    /\ st_pc' = "compute_grants_by_state_year"
    /\ UNCHANGED <<script_vars, csv, analysis_vars, v2_vars, st_df>>

(* ---------------------- the political path of get_data ----------------- *)
dashboard_vars == <<st_vars, analysis_vars, v2_vars>>

AddPoliticalGrant ==
    /\ pc = "csv"
    /\ Len(csv) < MaxPoliticalGrants
    /\ \E r \in PoliticalGrantRows : csv' = Append(csv, r)
    /\ UNCHANGED <<script_vars, dashboard_vars>>

AddPoliticalEntry ==
    /\ pc = "csv"
    /\ Len(political_csv) < MaxPoliticalRows
    /\ \E r \in PoliticalCsvRows : political_csv' = Append(political_csv, r)
    /\ UNCHANGED <<csv, dashboard_vars, create_vars, combine_vars, join_vars, political_df, political_source_df,
                   political_pc, political_error>>

(* get_data: political_df = load_political_data() *)
LoadPoliticalData ==
    /\ pc = "load_data"
    /\ political_pc = "csv"
    /\ political_df' = load_political_data(political_csv)
    /\ political_pc' = "load_political_data"
    /\ UNCHANGED <<csv, dashboard_vars, create_vars, combine_vars, join_vars, political_csv, political_source_df,
                   political_error>>

(* get_data: political_source_df = prepare_political_data(df, political_df) *)
PreparePoliticalData ==
    /\ political_pc = "load_political_data"
    /\ IF PoliticalRaises(df, political_df) # "none"
       THEN /\ political_pc' = "raised"
            /\ political_error' = PoliticalRaises(df, political_df)
            /\ UNCHANGED political_source_df
       ELSE /\ political_pc' = "prepare_political_data"
            /\ political_source_df' = prepare_political_data(df, political_df)
            /\ UNCHANGED political_error
    /\ UNCHANGED <<csv, dashboard_vars, create_vars, combine_vars, join_vars, political_csv, political_df>>

(* ------------------------ join_terminated_grants.py -------------------- *)
(* a row of all_grants_combined.csv; the file is in year order *)
AddCombinedGrant ==
    /\ join_pc = "files"
    /\ Len(grants_file) < MaxJoinRows
    /\ \E c \in AwdIdCells :
         grants_file' = Append(grants_file,
                               [awd_id |-> c, year |-> FirstYear + Len(grants_file)])
    /\ UNCHANGED <<csv, dashboard_vars, create_vars, combine_vars, political_vars, terminated_file, joined_file,
                   join_pc>>

AddTerminatedAward ==
    /\ join_pc = "files"
    /\ Len(terminated_file) < MaxJoinRows
    /\ \E c \in AwardIdCells :
         terminated_file' = Append(terminated_file, ("Award ID" :> c))
    /\ UNCHANGED <<csv, dashboard_vars, create_vars, combine_vars, political_vars, grants_file, joined_file,
                   join_pc>>

JoinTerminatedGrants ==
    /\ join_pc = "files"
    /\ joined_file' = join_terminated_grants(grants_file, terminated_file)
    /\ join_pc' = "saved"
    /\ UNCHANGED <<csv, dashboard_vars, create_vars, combine_vars, political_vars, grants_file, terminated_file>>

(* ---------------------------- combine_grants.py ------------------------ *)
(* one more row in grants_<year>.csv, the file created with its first row *)
AddYearlyRow ==
    /\ combine_pc = "files"
    /\ Len(Flatten([k \in 1..(LastYear - FirstYear + 1) |->
                       yearly_files[FirstYear + k - 1]])) < MaxYearlyRows
    /\ \E y \in Years, c \in YearlyAwdIds :
         yearly_files' = [yearly_files EXCEPT ![y] = Append(@, [awd_id |-> c])]
    /\ UNCHANGED <<csv, dashboard_vars, create_vars, political_vars, join_vars, combined_file,
                   combine_warnings, combine_pc>>

CombineYearlyGrants ==
    /\ combine_pc = "files"
    /\ combine_warnings' = skipped(yearly_files)
    /\ IF CombineRaises(yearly_files)
       THEN /\ combine_pc' = "raised"
            /\ UNCHANGED combined_file
       ELSE /\ combine_pc' = "saved"
            /\ combined_file' = combine_yearly_grants(yearly_files)
    /\ UNCHANGED <<csv, dashboard_vars, create_vars, political_vars, join_vars, yearly_files>>

(* --------------------------- create_year_csvs.py ----------------------- *)
MakeYearDirectory ==
    /\ create_pc = "dir"
    /\ ~year_dir.exists
    /\ year_dir' = [year_dir EXCEPT !.exists = TRUE]
    /\ UNCHANGED <<csv, dashboard_vars, political_vars, join_vars, combine_vars,
                   output_csv, grants_processed, create_pc>>

AddDirFile ==
    /\ create_pc = "dir"
    /\ year_dir.exists
    /\ Len(year_dir.files) < MaxDirFiles
    /\ \E f \in DirFiles : year_dir' = [year_dir EXCEPT !.files = Append(@, f)]
    /\ UNCHANGED <<csv, dashboard_vars, political_vars, join_vars, combine_vars,
                   output_csv, grants_processed, create_pc>>

(* main: count = process_year_directory(str(year_dir), str(output_csv)) *)
ProcessYearDirectory ==
    /\ create_pc = "dir"
    /\ grants_processed' = process_year_directory(year_dir)
    /\ output_csv' = written_csv(year_dir)
    /\ create_pc' = "returned"
    /\ UNCHANGED <<csv, dashboard_vars, political_vars, join_vars, combine_vars,
                   year_dir>>

Next ==
    \/ AddGrant
    \/ LoadData
    \/ PrepareGrantsByState
    \/ PrepareDirectorate
    \/ PrepareTerminationImpact
    \/ PrepareLifecycle
    \/ ReturnData

Spec == Init /\ [][Next]_vars

NextBulk ==
    \/ AddBulkGrant
    \/ LoadData
    \/ PrepareGrantsByState
    \/ PrepareDirectorate
    \/ PrepareTerminationImpact
    \/ PrepareLifecycle
    \/ ReturnData

SpecBulk == Init /\ [][NextBulk]_vars

(* both programs, analysis pipeline and streamlit_v2.py, over one data file *)
NextVariants ==
    \/ AddVariantGrant
    \/ LoadData
    \/ PrepareGrantsByState
    \/ PrepareDirectorate
    \/ PrepareTerminationImpact
    \/ PrepareLifecycle
    \/ ReturnData
    \/ V2LoadData
    \/ V2PrepareGrantsByStateYear
    \/ V2PrepareLifecycle
    \/ StLoadData
    \/ StComputeGrantsByStateYear

SpecVariants == Init /\ [][NextVariants]_vars

(* prepare_political_data over one grant file and one political file *)
NextPolitical ==
    \/ AddPoliticalGrant
    \/ AddPoliticalEntry
    \/ LoadData
    \/ LoadPoliticalData
    \/ PreparePoliticalData

SpecPolitical == Init /\ [][NextPolitical]_vars

NextJoin ==
    \/ AddCombinedGrant
    \/ AddTerminatedAward
    \/ JoinTerminatedGrants

SpecJoin == Init /\ [][NextJoin]_vars

NextCombine ==
    \/ AddYearlyRow
    \/ CombineYearlyGrants

SpecCombine == Init /\ [][NextCombine]_vars

NextCreate ==
    \/ MakeYearDirectory
    \/ AddDirFile
    \/ ProcessYearDirectory

SpecCreate == Init /\ [][NextCreate]_vars

(* ======================================================================= *)
(*                    Properties of the pipeline                           *)
(* ======================================================================= *)
GrantsByStateDone ==
    pc \in {"prepare_grants_by_state_data", "prepare_directorate_data",
            "prepare_termination_impact_data", "prepare_lifecycle_data_with_statecode",
            "get_data"}
DirectorateDone ==
    pc \in {"prepare_directorate_data", "prepare_termination_impact_data",
            "prepare_lifecycle_data_with_statecode", "get_data"}
TerminationImpactDone ==
    pc \in {"prepare_termination_impact_data", "prepare_lifecycle_data_with_statecode",
            "get_data"}
LifecycleDone == pc \in {"prepare_lifecycle_data_with_statecode", "get_data"}

(* a usable record: both dates, state name and code present, window in order *)
UsableRecord(r) ==
    /\ r.awd_eff_date # NaT /\ r.awd_exp_date # NaT
    /\ r.inst_state_name # NaN /\ r.inst_state_code # NaN
    /\ r.awd_eff_date <= r.awd_exp_date

UsableOf(S) == { j \in DOMAIN df : UsableRecord(df[j]) /\ df[j].inst_state_name = S }

ActiveOn(S, D) ==
    Cardinality({ j \in UsableOf(S) : df[j].awd_eff_date <= D /\ D <= df[j].awd_exp_date })

StateRowsOfSeries == { i \in DOMAIN lifecycle_df : lifecycle_df[i].State # "Allstates" }

(* C1: every row (Date D, State S) of the time series carries the number of
   usable records of S with awd_eff_date <= D <= awd_exp_date: a grant counts
   on its expiration day, not on the day after, and the value is 0 before
   the first event of S. *)
C1_EventIndexCorrect ==
    LifecycleDone =>
        \A i \in StateRowsOfSeries :
            lifecycle_df[i].ActiveGrants =
                ActiveOn(lifecycle_df[i].State, lifecycle_df[i].Date)

(* C1 witness: a state S has a row on a grant's expiration day that counts it,
   a row on the day after that no longer does, and a zero row dated before
   the first effective date of S. *)
C1_Witness ==
    /\ LifecycleDone
    /\ \E i, j, k \in StateRowsOfSeries :
        /\ lifecycle_df[i].State = lifecycle_df[j].State
        /\ lifecycle_df[k].State = lifecycle_df[i].State
        /\ lifecycle_df[j].Date = lifecycle_df[i].Date + 1
        /\ lifecycle_df[i].ActiveGrants = 1
        /\ lifecycle_df[j].ActiveGrants = 0
        /\ \E r \in UsableOf(lifecycle_df[i].State) :
               df[r].awd_exp_date = lifecycle_df[i].Date
        /\ lifecycle_df[k].ActiveGrants = 0
        /\ \A r \in UsableOf(lifecycle_df[k].State) :
               lifecycle_df[k].Date < df[r].awd_eff_date

(* ------------------------------- C2 ------------------------------------ *)
NoDegenerateWindows ==
    \A j \in DOMAIN df : ~DateGt(df[j].awd_eff_date, df[j].awd_exp_date)

YearlySum(Y) ==
    SeqSum(Column(SelectSeq(grants_by_state, LAMBDA r : r.year = Y), "num_grants"))

SeriesStates == { lifecycle_df[i].State : i \in StateRowsOfSeries }

(* the series value of S on D; 0 when the series has no such row *)
SeriesAt(S, D) ==
    LET hits == { i \in StateRowsOfSeries :
                    lifecycle_df[i].State = S /\ lifecycle_df[i].Date = D }
    IN IF hits = {} THEN 0 ELSE lifecycle_df[CHOOSE i \in hits : TRUE].ActiveGrants

RECURSIVE SeriesSumOver(_, _)
SeriesSumOver(states, D) ==
    IF states = {} THEN 0
    ELSE LET S == CHOOSE x \in states : TRUE
         IN SeriesAt(S, D) + SeriesSumOver(states \ {S}, D)

SeriesSum(D) == SeriesSumOver(SeriesStates, D)

(* C2 as stated: without degenerate windows the yearly overlap counts of a
   year add up to the event-index counts on Dec-31 of that year. *)
C2_ConservationAsStated ==
    (LifecycleDone /\ NoDegenerateWindows) =>
        \A Y \in Years : YearlySum(Y) = SeriesSum(Dec31(Y))

(* every record that carries a state code carries a FIPS state and its name *)
GroupsCoincide ==
    \A j \in DOMAIN df :
        df[j].inst_state_code # NaN =>
            /\ df[j].inst_state_code \in DOMAIN STATE_FIPS
            /\ df[j].inst_state_name # NaN

(* records that overlap year Y but expire before Dec-31-Y *)
ExpiredWithin(Y) ==
    Cardinality({ j \in DOMAIN df :
        /\ UsableRecord(df[j])
        /\ df[j].awd_eff_date <= Dec31(Y)
        /\ Jan01(Y) <= df[j].awd_exp_date
        /\ df[j].awd_exp_date < Dec31(Y) })

(* C2 amended: when every coded record has a FIPS state and a state name and
   no window is degenerate, the yearly overlap counts of year Y add up to the
   event-index counts on Dec-31-Y plus the number of grants that overlap Y
   but expire before Dec-31-Y; the two sums agree only when there is none. *)
C2_ConservationUpToExpired ==
    (LifecycleDone /\ NoDegenerateWindows /\ GroupsCoincide) =>
        \A Y \in Years : YearlySum(Y) = SeriesSum(Dec31(Y)) + ExpiredWithin(Y)

(* C2 witness: a year with a grant still active on Dec-31 and another that
   expired earlier in that year. *)
C2_Witness ==
    /\ LifecycleDone /\ NoDegenerateWindows /\ GroupsCoincide
    /\ \E Y \in Years :
        /\ ExpiredWithin(Y) = 1
        /\ SeriesSum(Dec31(Y)) = 1
        /\ YearlySum(Y) = 2

(* ------------------------------- C3 ------------------------------------ *)
ClippedAway(r) == r.terminated /\ DateGt(r.awd_exp_date, window_clip_date)

(* C3: after the clip date no row of the series counts a terminated grant
   whose expiration lies beyond the clip date. *)
C3_TerminatedClipped ==
    LifecycleDone =>
        \A i \in StateRowsOfSeries :
            lifecycle_df[i].Date > window_clip_date =>
                lifecycle_df[i].ActiveGrants =
                    Cardinality({ j \in UsableOf(lifecycle_df[i].State) :
                        /\ ~ClippedAway(df[j])
                        /\ df[j].awd_eff_date <= lifecycle_df[i].Date
                        /\ lifecycle_df[i].Date <= df[j].awd_exp_date })
(* ------------------------------- C4 ------------------------------------ *)
(* grants among the records idx whose window overlaps year Y *)
OverlapCount(idx, Y) ==
    Cardinality({ j \in idx :
        /\ df[j].awd_eff_date # NaT /\ df[j].awd_exp_date # NaT
        /\ df[j].awd_eff_date <= Dec31(Y)
        /\ df[j].awd_exp_date >= Jan01(Y) })

RecordsOfState(code) == { j \in DOMAIN df : df[j].inst_state_code = code }
RecordsOfDirectorate(dir) == { j \in DOMAIN df : df[j].dir_abbr = dir }

(* C4: in the yearly tables by state and by directorate, num_grants of group
   g and year Y is the number of grants of g with awd_eff_date <= Dec-31-Y
   and awd_exp_date >= Jan-01-Y. *)
C4_YearlyOverlapCount ==
    /\ GrantsByStateDone =>
        \A i \in DOMAIN grants_by_state :
            grants_by_state[i].num_grants =
                OverlapCount(RecordsOfState(grants_by_state[i].state),
                             grants_by_state[i].year)
    /\ DirectorateDone =>
        \A i \in DOMAIN directorate_data :
            directorate_data[i].year # "All years" =>
                \E Y \in Years :
                    /\ str(Y) = directorate_data[i].year
                    /\ directorate_data[i].num_grants =
                           OverlapCount(RecordsOfDirectorate(directorate_data[i].directorate), Y)

(* C4 witness: grants A (2021-03-01..2023-06-30) and B (2022-01-01..2030-01-01,
   terminated) in one state: 2 active in 2022, 1 in 2024, no row for 2026. *)
C4_Witness ==
    /\ DirectorateDone
    /\ Len(df) = 2
    /\ df[1].awd_eff_date = MidYear(2021) /\ df[1].awd_exp_date = MidYear(2023)
    /\ ~df[1].terminated
    /\ df[2].awd_eff_date = Jan01(2022) /\ df[2].awd_exp_date = Jan01(2030)
    /\ df[2].terminated
    /\ df[1].inst_state_code = df[2].inst_state_code
    /\ \E i, k \in DOMAIN grants_by_state :
        /\ grants_by_state[i].year = 2022 /\ grants_by_state[i].num_grants = 2
        /\ grants_by_state[k].year = 2024 /\ grants_by_state[k].num_grants = 1
    /\ \A i \in DOMAIN grants_by_state : grants_by_state[i].year # 2026
    /\ \E i \in DOMAIN directorate_data :
        directorate_data[i].year = "2022" /\ directorate_data[i].num_grants = 2

(* ------------------------------- C5 ------------------------------------ *)
CodesPresent == { df[j].inst_state_code : j \in DOMAIN df } \ {NaN}

RowsFor(code, Y) ==
    { i \in DOMAIN grants_by_state :
        grants_by_state[i].state = code /\ grants_by_state[i].year = Y }

OneRowPerGroupYear(codes) ==
    /\ \A c \in codes, Y \in Years : Cardinality(RowsFor(c, Y)) = 1
    /\ \A i \in DOMAIN grants_by_state :
        grants_by_state[i].state \in codes /\ grants_by_state[i].year \in Years

(* C5 as stated: one row for each state code of the input and each year of
   2020..2025, and no other row. *)
C5_RowSetAsStated == GrantsByStateDone => OneRowPerGroupYear(CodesPresent)

(* C5 amended: the table returned by prepare_grants_by_state_data has exactly
   one row for each state code of the input that has a STATE_FIPS entry and
   each year of 2020..2025, and no other row. *)
C5_RowSetFipsOnly ==
    GrantsByStateDone => OneRowPerGroupYear(CodesPresent \cap DOMAIN STATE_FIPS)

(* C5 witness: an input with a FIPS state and a state code without FIPS entry
   gives the six rows of the FIPS state only. *)
C5_Witness ==
    /\ GrantsByStateDone
    /\ CodesPresent \ DOMAIN STATE_FIPS # {}
    /\ Cardinality(CodesPresent \cap DOMAIN STATE_FIPS) = 1
    /\ Len(grants_by_state) = 6
    /\ \E i \in DOMAIN grants_by_state : grants_by_state[i].year = LastYear

(* ------------------------------- C6 ------------------------------------ *)
TerminatedOf(code) == Cardinality({ j \in RecordsOfState(code) : df[j].terminated })

(* C6: terminated_grants is 0 in the rows of 2020..2024 and, in the row of
   2025, the number of terminated records of the state, active or not. *)
C6_TerminationsInFinalYear ==
    GrantsByStateDone =>
        \A i \in DOMAIN grants_by_state :
            grants_by_state[i].terminated_grants =
                IF grants_by_state[i].year = 2025
                THEN TerminatedOf(grants_by_state[i].state)
                ELSE 0

(* C6 witness: a state whose only terminated grant expired in 2023: counted as
   terminated in 2025 although not active then, and not counted in 2023. *)
C6_Witness ==
    /\ GrantsByStateDone
    /\ \E i, k \in DOMAIN grants_by_state :
        /\ grants_by_state[i].state = grants_by_state[k].state
        /\ grants_by_state[i].year = 2025
        /\ grants_by_state[i].terminated_grants = 1
        /\ grants_by_state[i].num_grants = 0
        /\ grants_by_state[k].year = 2023
        /\ grants_by_state[k].num_grants = 1
        /\ grants_by_state[k].terminated_grants = 0

(* ------------------------------- C7 ------------------------------------ *)
(* pct, in hundredths of a percent, is exactly 100 * terminated / active *)
ExactPct(pct, terminated, active) ==
    IF active > 0 THEN pct * active = 10000 * terminated ELSE pct = 0

(* pct is 100 * terminated / active rounded to the nearest hundredth *)
RoundedPct(pct, terminated, active) ==
    IF active > 0
    THEN /\ 2 * (pct * active - 10000 * terminated) <= active
         /\ 2 * (10000 * terminated - pct * active) <= active
    ELSE pct = 0

(* C7 as stated: terminated_percentage equals 100 * terminated_count /
   active_count when active_count > 0 and is 0 when active_count = 0. *)
C7_PercentageAsStated ==
    /\ GrantsByStateDone =>
        \A i \in DOMAIN grants_by_state :
            ExactPct(grants_by_state[i].terminated_pct,
                     grants_by_state[i].terminated_grants,
                     grants_by_state[i].num_grants)
    /\ TerminationImpactDone =>
        \A i \in DOMAIN termination_impact_df :
            ExactPct(termination_impact_df[i].termination_pct,
                     termination_impact_df[i].terminated_grants,
                     termination_impact_df[i].active_grants_2025)

(* C7 amended: terminated_percentage equals 100 * terminated_count /
   active_count rounded to two decimals when active_count > 0 and is exactly
   0 when active_count = 0, also when terminated_count > 0. *)
C7_PercentageRounded ==
    /\ GrantsByStateDone =>
        \A i \in DOMAIN grants_by_state :
            RoundedPct(grants_by_state[i].terminated_pct,
                       grants_by_state[i].terminated_grants,
                       grants_by_state[i].num_grants)
    /\ TerminationImpactDone =>
        \A i \in DOMAIN termination_impact_df :
            RoundedPct(termination_impact_df[i].termination_pct,
                       termination_impact_df[i].terminated_grants,
                       termination_impact_df[i].active_grants_2025)

(* C7 witness: one state with 1 of 3 active grants terminated (33.33) and
   another with a terminated grant and no active grant in 2025 (0). *)
C7_Witness ==
    /\ TerminationImpactDone
    /\ \E i, k \in DOMAIN grants_by_state :
        /\ grants_by_state[i].num_grants = 3
        /\ grants_by_state[i].terminated_grants = 1
        /\ grants_by_state[i].terminated_pct = 3333
        /\ grants_by_state[k].num_grants = 0
        /\ grants_by_state[k].terminated_grants = 1
        /\ grants_by_state[k].terminated_pct = 0
    /\ \E i \in DOMAIN termination_impact_df :
        /\ termination_impact_df[i].active_grants_2025 = 0
        /\ termination_impact_df[i].terminated_grants = 1
        /\ termination_impact_df[i].termination_pct = 0

(* ------------------------------- C8 ------------------------------------ *)
StartsOn(S, d) == Cardinality({ j \in UsableOf(S) : df[j].awd_eff_date = d })
EndsOn(S, d) == Cardinality({ j \in UsableOf(S) : df[j].awd_exp_date + 1 = d })

UsableNames == { df[j].inst_state_name : j \in { k \in DOMAIN df : UsableRecord(df[k]) } }

EventDaysOf(S) ==
    { df[j].awd_eff_date : j \in UsableOf(S) } \cup
    { df[j].awd_exp_date + 1 : j \in UsableOf(S) }

AllEventDays == UNION { EventDaysOf(S) : S \in UsableNames }

(* C8: every usable record contributes +1 on awd_eff_date and -1 on the day
   after awd_exp_date, and the event index holds, for each event day and
   state, the sum of that state's events of the day. *)
C8_SignedEventsCollapsed ==
    LifecycleDone =>
        /\ DOMAIN event_index = AllEventDays
        /\ \A d \in DOMAIN event_index :
            /\ DOMAIN event_index[d] = UsableNames
            /\ \A S \in UsableNames : event_index[d][S] = StartsOn(S, d) - EndsOn(S, d)

(* C8 witness: two grants of one state, both 2020-01-01..2020-01-01: delta +2
   on 2020-01-01, delta -2 on 2020-01-02, 2 active on the first day and 0 on
   the second. *)
C8_Witness ==
    /\ LifecycleDone
    /\ Len(df) = 2
    /\ \A j \in DOMAIN df :
        df[j].awd_eff_date = Jan01(2020) /\ df[j].awd_exp_date = Jan01(2020)
    /\ \E S \in UsableNames :
        /\ DOMAIN event_index = {Jan01(2020), Jan01(2020) + 1}
        /\ event_index[Jan01(2020)][S] = 2
        /\ event_index[Jan01(2020) + 1][S] = -2
        /\ SeriesAt(S, Jan01(2020)) = 2
        /\ SeriesAt(S, Jan01(2020) + 1) = 0
        /\ Cardinality({ i \in StateRowsOfSeries : lifecycle_df[i].State = S }) = 2

(* ------------------------------- C9 ------------------------------------ *)
(* C9: when the series of a state differs between two consecutive days, the
   later day is an event date of that state; between event dates the value
   stays constant. *)
C9_StepFunction ==
    LifecycleDone =>
        \A i \in DOMAIN lifecycle_df :
            (/\ i + 1 \in StateRowsOfSeries
             /\ lifecycle_df[i + 1].State = lifecycle_df[i].State
             /\ lifecycle_df[i + 1].Date = lifecycle_df[i].Date + 1
             /\ lifecycle_df[i + 1].ActiveGrants # lifecycle_df[i].ActiveGrants)
            => lifecycle_df[i + 1].Date \in EventDaysOf(lifecycle_df[i].State)

(* C9 witness: a state whose series keeps a positive value over a day without
   event and changes on the next day, an event date. *)
C9_Witness ==
    /\ LifecycleDone
    /\ \E i \in DOMAIN lifecycle_df :
        /\ i + 2 \in StateRowsOfSeries
        /\ lifecycle_df[i + 2].State = lifecycle_df[i].State
        /\ lifecycle_df[i + 1].Date = lifecycle_df[i].Date + 1
        /\ lifecycle_df[i + 2].Date = lifecycle_df[i].Date + 2
        /\ lifecycle_df[i + 1].Date \notin EventDaysOf(lifecycle_df[i].State)
        /\ lifecycle_df[i + 2].Date \in EventDaysOf(lifecycle_df[i].State)
        /\ lifecycle_df[i].ActiveGrants > 0
        /\ lifecycle_df[i + 1].ActiveGrants = lifecycle_df[i].ActiveGrants
        /\ lifecycle_df[i + 2].ActiveGrants # lifecycle_df[i].ActiveGrants

(* ------------------------------- C10 ----------------------------------- *)
(* C10: on a grant table without records no call raises, and the yearly table
   and the time series come out with zero rows. *)
C10_EmptyInputNoRaise ==
    (csv = <<>> /\ pc # "csv") =>
        /\ pc # "raised"
        /\ error = "none"
        /\ Len(grants_by_state) = 0
        /\ Len(lifecycle_df) = 0

(* ------------------------------- C11 ----------------------------------- *)
(* a record with both dates present and its window in order *)
WellFormed(r) ==
    /\ r.awd_eff_date # NaT /\ r.awd_exp_date # NaT
    /\ r.awd_eff_date <= r.awd_exp_date

(* C11: a group without usable records (every record of it lacks a date or
   has its window out of order) has num_grants = 0 and terminated_pct = 0 in
   every yearly row, and 0 in every row of the time series. *)
C11_ZeroGrantGroup ==
    /\ GrantsByStateDone =>
        \A i \in DOMAIN grants_by_state :
            (\A j \in RecordsOfState(grants_by_state[i].state) : ~WellFormed(df[j]))
            => /\ grants_by_state[i].num_grants = 0
               /\ grants_by_state[i].terminated_pct = 0
    /\ LifecycleDone =>
        \A i \in StateRowsOfSeries :
            UsableOf(lifecycle_df[i].State) = {} => lifecycle_df[i].ActiveGrants = 0

(* ------------------------------- C12 ----------------------------------- *)
(* a record that lacks a date or the grouping key of the yearly table *)
MissingField(r) ==
    r.awd_eff_date = NaT \/ r.awd_exp_date = NaT \/ r.inst_state_code = NaN

CompleteOfState(code) == { j \in RecordsOfState(code) : ~MissingField(df[j]) }

(* C12: records that lack awd_eff_date, awd_exp_date or the grouping key add
   nothing to num_grants and nothing to terminated_grants of any yearly row,
   and nothing to any count of the time series. *)
C12_MalformedDropped ==
    /\ GrantsByStateDone =>
        \A i \in DOMAIN grants_by_state :
            /\ grants_by_state[i].num_grants =
                   OverlapCount(CompleteOfState(grants_by_state[i].state),
                                grants_by_state[i].year)
            /\ grants_by_state[i].terminated_grants =
                   IF grants_by_state[i].year = 2025
                   THEN Cardinality({ j \in CompleteOfState(grants_by_state[i].state) :
                                        df[j].terminated })
                   ELSE 0
    /\ LifecycleDone =>
        \A i \in StateRowsOfSeries :
            lifecycle_df[i].ActiveGrants =
                Cardinality({ j \in DOMAIN df :
                    /\ ~MissingField(df[j])
                    /\ df[j].inst_state_name = lifecycle_df[i].State
                    /\ df[j].awd_eff_date <= lifecycle_df[i].Date
                    /\ lifecycle_df[i].Date <= df[j].awd_exp_date })

(* ------------------------------- C13 ----------------------------------- *)
InOrder(idx) == { j \in idx : ~DateGt(df[j].awd_eff_date, df[j].awd_exp_date) }

(* C13: a record with awd_eff_date > awd_exp_date adds nothing to num_grants
   of any yearly row, by state or by directorate, and nothing to any count of
   the time series. *)
C13_DegenerateDropped ==
    /\ GrantsByStateDone =>
        \A i \in DOMAIN grants_by_state :
            grants_by_state[i].num_grants =
                OverlapCount(InOrder(RecordsOfState(grants_by_state[i].state)),
                             grants_by_state[i].year)
    /\ DirectorateDone =>
        \A i \in DOMAIN directorate_data :
            directorate_data[i].year # "All years" =>
                \E Y \in Years :
                    /\ str(Y) = directorate_data[i].year
                    /\ directorate_data[i].num_grants =
                           OverlapCount(InOrder(RecordsOfDirectorate(
                                            directorate_data[i].directorate)), Y)
    /\ LifecycleDone =>
        \A i \in StateRowsOfSeries :
            lifecycle_df[i].ActiveGrants =
                Cardinality({ j \in InOrder(UsableOf(lifecycle_df[i].State)) :
                    /\ df[j].awd_eff_date <= lifecycle_df[i].Date
                    /\ lifecycle_df[i].Date <= df[j].awd_exp_date })

(* ------------------------------- C14 ----------------------------------- *)
V2GrantsDone == v2_pc \in {"prepare_grants_by_state_year", "prepare_lifecycle_data"}
V2LifecycleDone == v2_pc = "prepare_lifecycle_data"

SeriesNames == { lifecycle_df[i].State : i \in DOMAIN lifecycle_df }

DatesOf(S) ==
    { lifecycle_df[i].Date : i \in { k \in DOMAIN lifecycle_df : lifecycle_df[k].State = S } }

PositiveDatesOf(S) ==
    { lifecycle_df[i].Date :
        i \in { k \in DOMAIN lifecycle_df :
                  lifecycle_df[k].State = S /\ lifecycle_df[k].ActiveGrants > 0 } }

V2Codes == { v2_lifecycle_df[i].state_code : i \in DOMAIN v2_lifecycle_df }

V2DatesOf(code) ==
    { v2_lifecycle_df[i].Date :
        i \in { k \in DOMAIN v2_lifecycle_df : v2_lifecycle_df[k].state_code = code } }

V2PositiveDatesOf(code) ==
    { v2_lifecycle_df[i].Date :
        i \in { k \in DOMAIN v2_lifecycle_df :
                  /\ v2_lifecycle_df[k].state_code = code
                  /\ v2_lifecycle_df[k].ActiveGrants > 0 } }

(* C14 as stated: no group has a row dated before its first positive count,
   in the daily series and in the monthly series. *)
C14_LeadingZerosTruncated ==
    /\ LifecycleDone =>
        \A S \in SeriesNames :
            /\ PositiveDatesOf(S) # {}
            /\ SetMin(DatesOf(S)) = SetMin(PositiveDatesOf(S))
    /\ V2LifecycleDone =>
        \A c \in V2Codes :
            /\ V2PositiveDatesOf(c) # {}
            /\ SetMin(V2DatesOf(c)) = SetMin(V2PositiveDatesOf(c))

(* the first day of the daily series: the first event of the whole input, or
   2020-01-01 when events precede it *)
FirstSeriesDay ==
    IF SetMin(AllEventDays) < Jan01(2020) THEN Jan01(2020) ELSE SetMin(AllEventDays)

MonthStarts == { d \in Jan01(2020)..Dec31(2025) : d % DaysPerYear # DaysPerYear - 1 }

(* C14 amended: no series is cut at a group's first positive count. Every
   group of the daily series begins on the same day, the first event date of
   the whole input or 2020-01-01 when events precede it; every group of the
   monthly series has a row for each month start from 2020-01-01 on. *)
C14_CommonFirstDate ==
    /\ LifecycleDone =>
        \A S \in SeriesNames : SetMin(DatesOf(S)) = FirstSeriesDay
    /\ V2LifecycleDone =>
        \A c \in V2Codes : V2DatesOf(c) = MonthStarts

(* C14 witness: both series hold a state whose first row carries 0 and is
   dated before its first positive count. *)
C14_Witness ==
    /\ LifecycleDone /\ V2LifecycleDone
    /\ \E S \in SeriesNames :
        /\ PositiveDatesOf(S) # {}
        /\ SetMin(DatesOf(S)) < SetMin(PositiveDatesOf(S))
        /\ SetMin(DatesOf(S)) > Jan01(2020)
    /\ \E c \in V2Codes :
        /\ V2PositiveDatesOf(c) # {}
        /\ SetMin(V2DatesOf(c)) < SetMin(V2PositiveDatesOf(c))

(* ------------------------------- C15 ----------------------------------- *)
(* C15 as stated: every group has a row for every day from 2020-01-01 to
   2026-01-01, whatever the event dates of the input are. *)
C15_FullRangeCoverage ==
    LifecycleDone =>
        \A S \in UsableNames :
            \A d \in Jan01(2020)..Jan01(2026) : d \in DatesOf(S)

LastSeriesDay ==
    IF SetMax(AllEventDays) > Jan01(2026) THEN Jan01(2026) ELSE SetMax(AllEventDays)

(* C15 amended: every group has a row for every day from the later of
   2020-01-01 and the first event date of the whole input to the earlier of
   2026-01-01 and the last event date, and for no other day; from the last
   event of a group on, its rows repeat the value of the previous day. *)
C15_EventRangeCoverage ==
    LifecycleDone =>
        LET names == SeriesNames
        IN /\ names \in {{}, UsableNames \cup {"Allstates"}}
           /\ (UsableNames # {} /\ FirstSeriesDay <= LastSeriesDay) => names # {}
           /\ names # {} =>
                LET days == FirstSeriesDay..LastSeriesDay
                IN \A S \in names :
                     /\ DatesOf(S) = days
                     /\ S # "Allstates" =>
                          LET last == SetMax(EventDaysOf(S))
                          IN \A i \in DOMAIN lifecycle_df :
                               (/\ lifecycle_df[i].State = S
                                /\ lifecycle_df[i].Date >= last
                                /\ i + 1 \in DOMAIN lifecycle_df
                                /\ lifecycle_df[i + 1].State = S)
                               => lifecycle_df[i + 1].ActiveGrants =
                                      lifecycle_df[i].ActiveGrants

(* C15 witness: a series that ends before 2026-01-01, with a state whose
   last event precedes the last day and whose rows keep its value to the end. *)
C15_Witness ==
    /\ LifecycleDone
    /\ SeriesNames # {}
    /\ LastSeriesDay < Jan01(2026)
    /\ \E S \in UsableNames :
        /\ SetMax(EventDaysOf(S)) < LastSeriesDay - 1
        /\ SetMax(EventDaysOf(S)) > FirstSeriesDay
        /\ SeriesAt(S, SetMax(EventDaysOf(S)) - 1) = 1
        /\ SeriesAt(S, LastSeriesDay) = 0
        /\ DatesOf(S) = FirstSeriesDay..LastSeriesDay

(* ------------------------------- C16 ----------------------------------- *)
RECURSIVE PairSum(_)
PairSum(pairs) ==
    IF pairs = {} THEN 0
    ELSE LET p == CHOOSE x \in pairs : TRUE
         IN p[2] + PairSum(pairs \ {p})

(* the states' counts of day D, one pair per state *)
StateCountsOn(D) ==
    { <<lifecycle_df[k].State, lifecycle_df[k].ActiveGrants>> :
        k \in { j \in StateRowsOfSeries : lifecycle_df[j].Date = D } }

(* C16: on every date the count of 'Allstates' is the sum of the counts of
   the individual states on that date. *)
C16_AllstatesIsSum ==
    LifecycleDone =>
        \A i \in DOMAIN lifecycle_df :
            lifecycle_df[i].State = "Allstates" =>
                lifecycle_df[i].ActiveGrants = PairSum(StateCountsOn(lifecycle_df[i].Date))

(* C16 witness: a date on which two states have one active grant each and
   'Allstates' has 2. *)
C16_Witness ==
    /\ LifecycleDone
    /\ \E i \in DOMAIN lifecycle_df :
        /\ lifecycle_df[i].State = "Allstates"
        /\ lifecycle_df[i].ActiveGrants = 2
        /\ StateCountsOn(lifecycle_df[i].Date) = {<<"California", 1>>, <<"Texas", 1>>}

(* ------------------------------- C18 ----------------------------------- *)
Returned == DOMAIN data # {}

(* C18: get_data returns nothing before its last table is computed and
   nothing when a call raised; what it returns is the complete set of tables,
   all computed from the one table load_data read. *)
C18_NoPartialResult ==
    /\ pc = "raised" => ~Returned
    /\ Returned =>
        /\ pc = "get_data"
        /\ error = "none"
        /\ DOMAIN data = {"df", "grants_by_state", "directorate_data",
                          "termination_impact_df", "lifecycle_df"}
        /\ data.df = load_data(csv)
        /\ data.grants_by_state = prepare_grants_by_state_data(data.df)
        /\ data.directorate_data = prepare_directorate_data(data.df)
        /\ data.termination_impact_df = prepare_termination_impact_data(data.df)
        /\ data.lifecycle_df = prepare_lifecycle_data_with_statecode(data.df)

(* C18 witness: prepare_termination_impact_data raised after the yearly
   tables by state and by directorate were computed, and nothing is returned. *)
C18_Witness ==
    /\ pc = "raised"
    /\ error = "KeyError"
    /\ grants_by_state # <<>>
    /\ directorate_data # <<>>
    /\ ~Returned

(* ------------------------------- C19 ----------------------------------- *)
(* a terminated grant that starts after the clip date *)
LateTerminated(r) == r.terminated /\ DateGt(r.awd_eff_date, Dec31(2025))

V2Counted(code) ==
    { j \in DOMAIN v2_df : v2_df[j].inst_state_code = code /\ ~LateTerminated(v2_df[j]) }

(* C19: in streamlit_v2.py a terminated grant whose awd_eff_date is later
   than 2025-12-31 is in no count: the yearly rows and the monthly rows carry
   the counts of the other records. *)
C19_LateTerminatedUncounted ==
    /\ V2GrantsDone =>
        \A i \in DOMAIN v2_grants_df :
            /\ v2_grants_df[i].num_grants =
                   Cardinality({ j \in V2Counted(v2_grants_df[i].state) :
                       /\ v2_df[j].awd_eff_date <= Dec31(v2_grants_df[i].year)
                       /\ v2_df[j].awd_exp_date >= Jan01(v2_grants_df[i].year) })
            /\ v2_grants_df[i].terminated_grants =
                   IF v2_grants_df[i].year = 2025
                   THEN Cardinality({ j \in V2Counted(v2_grants_df[i].state) :
                            /\ v2_df[j].terminated
                            /\ v2_df[j].awd_eff_date <= Dec31(2025)
                            /\ v2_df[j].awd_exp_date >= Jan01(2025) })
                   ELSE 0
    /\ V2LifecycleDone =>
        \A i \in DOMAIN v2_lifecycle_df :
            v2_lifecycle_df[i].ActiveGrants =
                Cardinality({ j \in V2Counted(v2_lifecycle_df[i].state_code) :
                    /\ v2_df[j].awd_eff_date <= v2_lifecycle_df[i].Date
                    /\ v2_df[j].awd_exp_date >= v2_lifecycle_df[i].Date })

(* C19 witness: a terminated grant 2026-01-01..2030-01-01 comes out of
   load_data with awd_exp_date = 2025-12-31 < awd_eff_date; its state has
   rows, and the row of 2025 counts neither an active nor a terminated grant. *)
C19_Witness ==
    /\ V2LifecycleDone
    /\ \E j \in DOMAIN v2_df :
        /\ LateTerminated(v2_df[j])
        /\ v2_df[j].awd_exp_date = Dec31(2025)
        /\ csv[j].awd_exp_date = Jan01(2030)
        /\ \E i \in DOMAIN v2_grants_df :
            /\ v2_grants_df[i].state = v2_df[j].inst_state_code
            /\ v2_grants_df[i].year = 2025
            /\ v2_grants_df[i].num_grants = 0
            /\ v2_grants_df[i].terminated_grants = 0
        /\ \E i \in DOMAIN v2_lifecycle_df :
            v2_lifecycle_df[i].state_code = v2_df[j].inst_state_code

(* ------------------------------- C20 ----------------------------------- *)
(* the daily series' count of (name, code) on D; 0 when it has no such row *)
DailyAt(name, code, D) ==
    LET hits == { i \in DOMAIN lifecycle_df :
                    /\ lifecycle_df[i].State = name
                    /\ lifecycle_df[i].state_code = code
                    /\ lifecycle_df[i].Date = D }
    IN IF hits = {} THEN 0 ELSE lifecycle_df[CHOOSE i \in hits : TRUE].ActiveGrants

(* the monthly series' count of (name, code) on D; 0 when it has no such row *)
MonthlyAt(name, code, D) ==
    LET hits == { i \in DOMAIN v2_lifecycle_df :
                    /\ v2_lifecycle_df[i].State = name
                    /\ v2_lifecycle_df[i].state_code = code
                    /\ v2_lifecycle_df[i].Date = D }
    IN IF hits = {} THEN 0 ELSE v2_lifecycle_df[CHOOSE i \in hits : TRUE].ActiveGrants

AgreeOn(name, code, D) == DailyAt(name, code, D) = MonthlyAt(name, code, D)

(* C20 as stated: on one data file the monthly series of streamlit_v2.py and
   the daily series of analysis_functions.py carry the same count for every
   state at every month start from 2020-01-01 to 2025-12-01. *)
C20_VariantsAgree ==
    (LifecycleDone /\ V2LifecycleDone) =>
        /\ \A i \in DOMAIN v2_lifecycle_df :
            AgreeOn(v2_lifecycle_df[i].State, v2_lifecycle_df[i].state_code,
                    v2_lifecycle_df[i].Date)
        /\ \A i \in StateRowsOfSeries :
            lifecycle_df[i].Date \in MonthStarts =>
                AgreeOn(lifecycle_df[i].State, lifecycle_df[i].state_code,
                        lifecycle_df[i].Date)

(* the name occurs with this code only and the code with this name only *)
OneToOne(name, code) ==
    \A j \in DOMAIN csv :
        (csv[j].inst_state_name # NaN /\ csv[j].inst_state_code # NaN) =>
            (csv[j].inst_state_name = name <=> csv[j].inst_state_code = code)

(* C20 amended: the two series carry the same count at every month start
   from 2020-01-01 to 2025-12-01 for every state whose name occurs with one
   state code only and whose code occurs with that name only, a missing row
   counting as 0. *)
C20_VariantsAgreeOneToOne ==
    (LifecycleDone /\ V2LifecycleDone) =>
        /\ \A i \in DOMAIN v2_lifecycle_df :
            OneToOne(v2_lifecycle_df[i].State, v2_lifecycle_df[i].state_code) =>
                AgreeOn(v2_lifecycle_df[i].State, v2_lifecycle_df[i].state_code,
                        v2_lifecycle_df[i].Date)
        /\ \A i \in StateRowsOfSeries :
            (/\ lifecycle_df[i].Date \in MonthStarts
             /\ OneToOne(lifecycle_df[i].State, lifecycle_df[i].state_code))
            => AgreeOn(lifecycle_df[i].State, lifecycle_df[i].state_code,
                       lifecycle_df[i].Date)

(* C20 witness: a state with a grant 2021-03-01..2023-06-30 and a terminated
   grant 2022-01-01..2030-01-01, capped by streamlit_v2.py only: both series
   count 2 at a month start and the monthly series has rows the daily lacks. *)
C20_Witness ==
    /\ LifecycleDone /\ V2LifecycleDone
    /\ \E j \in DOMAIN df : ClippedAway(df[j])
    /\ \E i \in DOMAIN v2_lifecycle_df :
        /\ OneToOne(v2_lifecycle_df[i].State, v2_lifecycle_df[i].state_code)
        /\ v2_lifecycle_df[i].ActiveGrants = 2
        /\ DailyAt(v2_lifecycle_df[i].State, v2_lifecycle_df[i].state_code,
                   v2_lifecycle_df[i].Date) = 2
    /\ \E i \in DOMAIN v2_lifecycle_df : v2_lifecycle_df[i].Date \notin DatesOf("Allstates")

(* ------------------------------- C21 ----------------------------------- *)
StGrantsDone == st_pc = "compute_grants_by_state_year"

SameCounts(a, b) ==
    (a.state = b.state /\ a.year = b.year) =>
        /\ a.num_grants = b.num_grants
        /\ a.terminated_grants = b.terminated_grants

(* C21: on one data file the yearly tables of analysis_functions.py,
   streamlit.py and streamlit_v2.py carry the same num_grants and the same
   terminated_grants in every (state, year) row that two of them share. *)
C21_YearlyVariantsAgree ==
    /\ (GrantsByStateDone /\ StGrantsDone) =>
        \A i \in DOMAIN grants_by_state, k \in DOMAIN st_grants_by_state :
            SameCounts(grants_by_state[i], st_grants_by_state[k])
    /\ (GrantsByStateDone /\ V2GrantsDone) =>
        \A i \in DOMAIN grants_by_state, j \in DOMAIN v2_grants_df :
            SameCounts(grants_by_state[i], v2_grants_df[j])
    /\ (StGrantsDone /\ V2GrantsDone) =>
        \A k \in DOMAIN st_grants_by_state, j \in DOMAIN v2_grants_df :
            SameCounts(st_grants_by_state[k], v2_grants_df[j])

(* ------------------------------- C22 ----------------------------------- *)
(* C22: the active count of every state and of 'Allstates' is >= 0 at every
   date of the time series. *)
C22_NonNegativeCounts ==
    LifecycleDone =>
        \A i \in DOMAIN lifecycle_df : lifecycle_df[i].ActiveGrants >= 0

(* C22 witness: the input holds a record with awd_eff_date > awd_exp_date
   and a second record, and the series has a row of the state, dated after
   that expiration and before that effective date, that counts the second
   record alone. *)
C22_Witness ==
    /\ LifecycleDone
    /\ \E j \in DOMAIN df :
        /\ DateGt(df[j].awd_eff_date, df[j].awd_exp_date)
        /\ df[j].inst_state_name # NaN /\ df[j].inst_state_code # NaN
        /\ \E i \in DOMAIN lifecycle_df :
            /\ lifecycle_df[i].Date > df[j].awd_exp_date
            /\ lifecycle_df[i].Date < df[j].awd_eff_date
            /\ lifecycle_df[i].State = df[j].inst_state_name
            /\ lifecycle_df[i].ActiveGrants = 1
            /\ Len(df) = 2

(* ------------------------------- C23 ----------------------------------- *)
RECURSIVE DeltaSum(_, _)
DeltaSum(S, dates) ==
    IF dates = {} THEN 0
    ELSE LET d == CHOOSE x \in dates : TRUE
         IN event_index[d][S] + DeltaSum(S, dates \ {d})

LatestExpiration(S) == SetMax({ df[j].awd_exp_date : j \in UsableOf(S) })

(* C23: the deltas of every state in the event table sum to 0, and the count
   of a state is 0 in every row dated after its latest expiration. *)
C23_NetZeroEvents ==
    LifecycleDone =>
        \A S \in UsableNames :
            /\ DeltaSum(S, DOMAIN event_index) = 0
            /\ LET last == LatestExpiration(S)
               IN \A i \in DOMAIN lifecycle_df :
                    (lifecycle_df[i].State = S /\ lifecycle_df[i].Date > last)
                    => lifecycle_df[i].ActiveGrants = 0

(* C23 witness: a state with two grants whose count is 2 on some day and 0
   on the day after its latest expiration. *)
C23_Witness ==
    /\ LifecycleDone
    /\ \E S \in UsableNames :
        /\ Cardinality(UsableOf(S)) = 2
        /\ \E d \in DatesOf(S) : SeriesAt(S, d) = 2
        /\ LatestExpiration(S) + 1 \in DatesOf(S)
        /\ SeriesAt(S, LatestExpiration(S)) > 0
        /\ SeriesAt(S, LatestExpiration(S) + 1) = 0

(* ------------------------------- C24 ----------------------------------- *)
YearOfDate(D) == FirstYear - 1 + (D \div DaysPerYear)

(* the yearly row (code, Y) bounds the series row of the same code on a
   date within Y *)
BoundsSeriesRow(g, i) ==
    (/\ lifecycle_df[i].state_code = g.state
     /\ YearOfDate(lifecycle_df[i].Date) = g.year)
    => g.num_grants >= lifecycle_df[i].ActiveGrants

(* C24 as stated: for every state, every year Y of 2020..2025 and every
   date D within Y, num_grants of the yearly row (state, Y) is at least the
   count of the time-series row of that state on D. *)
C24_OverlapBoundsPoint ==
    LifecycleDone =>
        \A k \in DOMAIN grants_by_state : \A i \in StateRowsOfSeries :
            BoundsSeriesRow(grants_by_state[k], i)

(* C24 amended: the bound holds for every state whose name occurs with one
   state code only and whose code occurs with that name only. *)
C24_OverlapBoundsPointOneToOne ==
    LifecycleDone =>
        \A k \in DOMAIN grants_by_state : \A i \in StateRowsOfSeries :
            OneToOne(lifecycle_df[i].State, lifecycle_df[i].state_code)
            => BoundsSeriesRow(grants_by_state[k], i)

(* C24 witness: a one-name-one-code state has a yearly row counting 2 and a
   series row dated within that year counting 1: two grants overlap the year
   without being active on that day together. *)
C24_Witness ==
    /\ LifecycleDone
    /\ \E k \in DOMAIN grants_by_state : \E i \in StateRowsOfSeries :
        /\ OneToOne(lifecycle_df[i].State, lifecycle_df[i].state_code)
        /\ lifecycle_df[i].state_code = grants_by_state[k].state
        /\ YearOfDate(lifecycle_df[i].Date) = grants_by_state[k].year
        /\ grants_by_state[k].num_grants = 2
        /\ lifecycle_df[i].ActiveGrants = 1

(* ------------------------------- C25 ----------------------------------- *)
(* C25: in every row of the yearly table terminated_grants <= num_grants,
   and terminated_pct lies between 0 and 100 (in hundredths of a percent). *)
C25_PercentageRange ==
    GrantsByStateDone =>
        \A k \in DOMAIN grants_by_state :
            /\ grants_by_state[k].terminated_grants <= grants_by_state[k].num_grants
            /\ grants_by_state[k].terminated_pct >= 0
            /\ grants_by_state[k].terminated_pct <= 10000

(* ------------------------------- C26 ----------------------------------- *)
(* the state codes the usable records give to the state name *)
CodesOfName(S) == { df[j].inst_state_code : j \in UsableOf(S) }

(* C26: the time series has exactly one row per (Date, State) pair, and
   every row of a real state carries the state code of that state, also
   when a state name occurs with more than one state code. *)
C26_UniqueSeriesRows ==
    LifecycleDone =>
        /\ \A i, j \in DOMAIN lifecycle_df :
            (/\ lifecycle_df[i].Date = lifecycle_df[j].Date
             /\ lifecycle_df[i].State = lifecycle_df[j].State) => i = j
        /\ \A i \in StateRowsOfSeries :
            lifecycle_df[i].state_code \in CodesOfName(lifecycle_df[i].State)

(* ------------------------------- C27 ----------------------------------- *)
PoliticalDone == political_pc = "prepare_political_data"

(* the entries of the political table for the state *)
EntriesOf(abbr) ==
    { k \in DOMAIN political_df : political_df[k].Abbreviation = abbr }

(* C27: every row of the table of prepare_political_data belongs to a state
   with an entry in the political table; its political_alignment is that
   entry's 2020 election winner when year < 2024 and its 2024 election
   winner when year >= 2024. *)
C27_AlignmentByYear ==
    PoliticalDone =>
        \A i \in DOMAIN political_source_df :
            LET r == political_source_df[i]
            IN \E k \in EntriesOf(r.Abbreviation) :
                /\ r.year < 2024 =>
                     r.political_alignment = political_df[k].2020_Election_Winner
                /\ r.year >= 2024 =>
                     r.political_alignment = political_df[k].2024_Election_Winner

(* C27 witness: a state whose two winners differ has the 2020 winner in its
   2023 row and the 2024 winner in its 2024 row, and another state of the
   grant table has no entry in the political table and no row. *)
C27_Witness ==
    /\ PoliticalDone
    /\ \E i, j \in DOMAIN political_source_df :
        /\ political_source_df[i].Abbreviation = political_source_df[j].Abbreviation
        /\ political_source_df[i].year = 2023
        /\ political_source_df[j].year = 2024
        /\ political_source_df[i].political_alignment = "Democrat"
        /\ political_source_df[j].political_alignment = "Republican"
    /\ \E g \in DOMAIN df :
        /\ df[g].inst_state_code # NaN
        /\ EntriesOf(df[g].inst_state_code) = {}
        /\ \A i \in DOMAIN political_source_df :
              political_source_df[i].Abbreviation # df[g].inst_state_code

(* ------------------------------- C28 ----------------------------------- *)
JoinDone == join_pc = "saved"

(* the whitespace-stripped Award IDs of the terminated-awards file *)
StrippedAwardIds ==
    { strip(terminated_file[k]["Award ID"]) : k \in DOMAIN terminated_file }

(* C28: join_terminated_grants keeps every grant row, same number and same
   order, and a row has terminated = TRUE exactly when its awd_id, stripped
   of whitespace, is among the whitespace-stripped Award IDs of the
   terminated-awards file. *)
C28_JoinFlags ==
    JoinDone =>
        /\ Len(joined_file) = Len(grants_file)
        /\ \A i \in DOMAIN joined_file :
            /\ joined_file[i].year = grants_file[i].year
            /\ joined_file[i].terminated
                 <=> strip(grants_file[i].awd_id) \in StrippedAwardIds

(* ------------------------------- C29 ----------------------------------- *)
(* the rows of the yearly files that exist, in year order, tagged *)
RECURSIVE TaggedRowsFrom(_)
TaggedRowsFrom(year) ==
    IF year > LastYear THEN <<>>
    ELSE [i \in DOMAIN yearly_files[year] |->
            [awd_id |-> yearly_files[year][i].awd_id, year |-> year]]
         \o TaggedRowsFrom(year + 1)

(* C29: for any subset of yearly files present, combine_yearly_grants does
   not fail: it writes one table whose rows are the rows of the files that
   exist, in year order, each tagged with its year, with 'year' as first
   column, and it reports every missing file with a warning. *)
C29_CombineAnySubset ==
    combine_pc # "files" =>
        /\ combine_pc = "saved"
        /\ combined_file.rows = TaggedRowsFrom(FirstYear)
        /\ combined_file.columns[1] = "year"
        /\ combine_warnings = { y \in Years : yearly_files[y] = <<>> }

(* ------------------------------- C30 ----------------------------------- *)
(* a JSON file whose grant can be extracted: JSON text, an object at top
   level, no null under 'inst' *)
Extractable(f) ==
    f.suffix = ".json" /\ f.wellformed /\ f.top = "object" /\ f.inst # "null"

ExtractableFiles == { i \in DOMAIN year_dir.files : Extractable(year_dir.files[i]) }

JsonFileCount ==
    Cardinality({ i \in DOMAIN year_dir.files : year_dir.files[i].suffix = ".json" })

(* C30: process_year_directory returns the number of JSON files whose grant
   could be extracted; a file that cannot be read as a grant is skipped and
   the others still count; for a missing directory and for a directory
   without JSON files it returns 0 and writes no CSV. *)
C30_GrantsProcessed ==
    create_pc = "returned" =>
        /\ grants_processed = Cardinality(ExtractableFiles)
        /\ output_csv.written => Len(output_csv.rows) = grants_processed
        /\ (~year_dir.exists \/ JsonFileCount = 0) =>
              (grants_processed = 0 /\ ~output_csv.written)

(* C30 witness: a directory with a JSON file that cannot be read, a file
   that is no JSON file and an extractable JSON file after them; the call
   returned 1 and wrote a CSV of one row. *)
C30_Witness ==
    /\ create_pc = "returned"
    /\ Len(year_dir.files) = 3
    /\ ~year_dir.files[1].wellformed
    /\ year_dir.files[2].suffix = ".txt"
    /\ Extractable(year_dir.files[3])
    /\ grants_processed = 1
    /\ output_csv.written
    /\ Len(output_csv.rows) = 1

====
